---- MODULE Spec2Model ----
(***************************************************************************)
(* Transport layer of the agent runtime: the three Connection variants     *)
(* (overlay node over named pipes, HTTP client, Prometheus metrics) and    *)
(* the length-prefixed framing of the overlay node's pipes.                *)
(*                                                                         *)
(* One behaviour follows one connection instance: Init picks the variant.  *)
(* Coroutines that suspend (connect, receive, the inbound pump) are split  *)
(* at their await points; everything between two awaits is one step, as on *)
(* a single cooperative event loop.                                        *)
(***************************************************************************)
EXTENDS Integers, Sequences, FiniteSets, TLC

\* ---------------------------------------------------------------- bounds
\* calls of NoiseNode.start() in a behaviour (each spawns at most one process)
MaxStarts == 2
\* frames the node processes write to the inbound pipe in a behaviour
MaxFrames == 2
\* envelopes accepted by send() in a behaviour
MaxSends == 1
\* payloads of one framing round trip
MaxPayloads == 2
\* the node opens its pipe ends before this many failed attempts of one
\* start() call, or not at all
MaxOpenDelay == 1
MaxPeers == 2
MaxWrites == 3
MaxPairSends == 2

\* ------------------------------------------------------- program constants
\* NoiseNode.__init__: self._connection_attempts = 30
ConnectionAttempts == 30
\* NoiseNode._connect: asyncio.sleep(2) between two attempts, in seconds
Backoff == 2

Protocols == {"http", "prometheus"}
Variants == {"p2p_noise", "http_client", "prometheus"}
\* the configurations tried: <<excluded_protocols, restricted_to_protocols>>
Configs == {<<{}, {}>>, <<{"prometheus"}, {}>>, <<{}, {"http"}>>}
\* P2PNoiseConnection never reads its two protocol sets: one configuration
NoiseConfigs == {<<{"prometheus"}, {"http"}>>}

VARIABLES
  variant,                  \* which Connection subclass this instance is
  excluded_protocols,       \* Connection configuration (immutable)
  restricted_to_protocols,  \* Connection configuration (immutable)
  is_connected,             \* connection_status.is_connected
  is_connecting,            \* connection_status.is_connecting
  connect_pc,               \* position of the connect() coroutine
  recv,                     \* position of the receive() coroutine
  old_queue,                \* items of the queue object a suspended receive()
                            \* still holds after the field was rebound
  last,                     \* last finished call and its outcome
  \* ---- P2PNoiseConnection / NoiseNode
  _connection_attempts, _noise_to_aea, _aea_to_noise, _stream_reader,
  starts,                   \* calls of NoiseNode.start() so far; the g-th call
                            \* creates the g-th pair of FIFOs and, unless it
                            \* fails first, the g-th node process
  tries,                    \* history: attempts of _connect in this start() call
  proc,                     \* NoiseNode.proc: 0 is None, g the g-th process
  procs,                    \* state of every spawned node process
  env_file,                 \* NOISE_NODE_ENV_FILE exists
  fifo_in,                  \* unread bytes of the node-to-manager FIFO, per process
  fifo_out,                 \* bytes written to the manager-to-node FIFO, per process
  _in_queue, _receive_from_node_task,
  tasks,                    \* state of every pump task created
  written,                  \* history: payloads each node process wrote
  delivered,                \* history: envelopes receive() returned
  open_fds,                 \* descriptors of each start()'s FIFOs that os.open
                            \* returned and nothing has closed: [in, out] counts
  signals,                  \* history: SIGTERMs sent to each node process
  blocked,                  \* the event loop's thread is inside proc.wait():
                            \* "no", or the method that called NoiseNode.stop
  env,                      \* the host environment (immutable): whether the node
                            \* process ignores SIGTERM, the exit status of
                            \* `go mod download`
  \* ---- HTTPClientConnection / HTTPClientChannel
  in_queue,                 \* channel.in_queue
  is_stopped,               \* channel.is_stopped
  requests,                 \* history: HTTP requests made by requests.request
  \* ---- PrometheusConnection / PrometheusChannel
  _state,                   \* Connection._state
  _queue,                   \* channel._queue
  metrics,                  \* channel.metrics: title -> metric type, "" if absent
  updates,                  \* history: calls of a metric's update function
  server,                   \* an HTTP server started by start_http_server
                            \* listens on channel._port
  \* ---- framing round trip
  fr_in,                    \* payloads given to NoiseNode.write, in order
  fr_next,                  \* index of the next payload to write
  fr_stream,                \* bytes written and not yet read
  fr_out,                   \* what NoiseNode.read returned, in order
  fr_open,                  \* the reading loop has not seen None yet
  \* ---- construction of a P2PNoiseConnection
  ctor,                     \* the arguments of __init__ and its outcome
  address,                  \* Connection.address
  pub,                      \* NoiseNode.pub
  \* ---- the manager-to-node FIFO behind NoiseNode.write
  pipe_stream,              \* history: every byte the pipe accepted, in order
  pipe_unread,              \* bytes in the pipe the node has not read yet
  pipe_log,                 \* history: the calls of send(), each with its data,
                            \* its outcome and the stream length it started at
  \* ---- NoiseNode.start step by step
  paths,                    \* what is at noise_to_aea_path and aea_to_noise_path:
                            \* 0 nothing, -1 a regular file, g the FIFO that
                            \* the g-th start() made
  steps,                    \* history: the steps the running start() has done
  \* ---- two connected P2PNoiseConnections, the second bootstrapped from
  \* ---- the first
  pair_out,                 \* unread bytes of connection 1's outbound FIFO
  pair_net,                 \* payloads node 1 has sent to node 2 over the overlay
  pair_in,                  \* unread bytes of connection 2's inbound FIFO
  pair_queue,               \* connection 2's _in_queue
  pair_recv,                \* position of connection 2's receive() coroutine
  pair_sent,                \* history: envelopes connection 1's send() took
  pair_got,                 \* history: envelopes connection 2's receive() returned
  \* ---- fetch_vars
  agent_config,             \* PublicId of the agent package found in the local registry
  public_id,                \* PublicId the caller asked for
  target_path,              \* TRUE when the target folder exists
  copied,                   \* TRUE once copy_tree has copied the package
  fetch_error               \* message of the ClickException raised, "" if none

shared_vars == <<variant, excluded_protocols, restricted_to_protocols,
                 is_connected, is_connecting, connect_pc, recv, old_queue, last>>
noise_vars == <<_connection_attempts, _noise_to_aea, _aea_to_noise, _stream_reader,
                starts, tries, proc, procs, env_file, fifo_in, fifo_out, _in_queue,
                _receive_from_node_task, tasks, written, delivered, open_fds,
                signals, blocked, env>>
http_vars == <<in_queue, is_stopped, requests>>
prom_vars == <<_state, _queue, metrics, updates, server>>
fr_vars == <<fr_in, fr_next, fr_stream, fr_out, fr_open>>
ctor_vars == <<ctor, address, pub>>
pipe_vars == <<pipe_stream, pipe_unread, pipe_log>>
start_vars == <<paths, steps>>
pair_vars == <<pair_out, pair_net, pair_in, pair_queue, pair_recv, pair_sent, pair_got>>
fetch_vars == <<agent_config, public_id, target_path, copied, fetch_error>>
vars == <<shared_vars, noise_vars, http_vars, prom_vars, fr_vars, ctor_vars, pipe_vars, start_vars, pair_vars, fetch_vars>>

Gens == 1..MaxStarts

\* ---------------------------------------------------------------- queues
\* asyncio.Queue(): an unbounded FIFO; the field holding it may be None
NoQueue == [set |-> FALSE, items |-> <<>>]
NewQueue == [set |-> TRUE, items |-> <<>>]
NoneItem == [none |-> TRUE, data |-> <<>>]
Item(d) == [none |-> FALSE, data |-> d]
put_nowait(q, it) == [q EXCEPT !.items = Append(@, it)]

\* what a finished call left: "ok" (returned), "none", "envelope" (the value
\* receive() returned), "cancelled", or the class of the exception it raised
Errors == {"AssertionError", "ConnectionError", "ValueError", "OSError", "Exception",
           "CancelledError", "RequestException", "AEAEnforceError", "UnboundLocalError"}
Ret(op, res) == last' = [op |-> op, res |-> res]

\* ------------------------------------------------------------- envelopes
\* Envelope.encode / Envelope.decode of the protocol layer
ProtocolByte(p) == IF p = "http" THEN 1 ELSE 2
ByteProtocol(b) == IF b = 1 THEN "http" ELSE "prometheus"
EnvelopeEncode(e) == <<ProtocolByte(e.protocol_id), e.message>>
EnvelopeDecode(d) == [protocol_id |-> ByteProtocol(d[1]), message |-> d[2]]
EnvelopeWellFormed(d) == Len(d) = 2 /\ d[1] \in {1, 2}

\* ---------------------------------------------------------------- framing
\* struct.pack("!I", n): 4 bytes, most significant first
pack(n) == <<(n \div 16777216) % 256, (n \div 65536) % 256, (n \div 256) % 256, n % 256>>
\* struct.unpack("!I", buf)[0]
unpack(buf) == ((buf[1] * 256 + buf[2]) * 256 + buf[3]) * 256 + buf[4]

\* NoiseNode.write: the bytes the two os.write calls put on the pipe
write(data) == pack(Len(data)) \o data

\* NoiseNode.read that hands the payload out but leaves the frame buffered
read_keeps_frame(stream, eof) ==
  IF Len(stream) < 4
  THEN IF eof THEN [res |-> "none", data |-> <<>>, rest |-> <<>>]
              ELSE [res |-> "wait", data |-> <<>>, rest |-> stream]
  ELSE LET size == unpack(SubSeq(stream, 1, 4))
           body == SubSeq(stream, 5, Len(stream))
       IN IF Len(body) < size
          THEN IF eof THEN [res |-> "none", data |-> <<>>, rest |-> <<>>]
                      ELSE [res |-> "wait", data |-> <<>>, rest |-> stream]
          ELSE LET data == SubSeq(body, 1, size)
               IN IF data = <<>>
                  THEN [res |-> "none", data |-> <<>>, rest |-> stream]
                  ELSE [res |-> "data", data |-> data, rest |-> stream]

\* NoiseNode.read that hands out what it has of a payload cut short by the
\* end of the stream
read_partial(stream, eof) ==
  IF Len(stream) < 4
  THEN IF eof THEN [res |-> "none", data |-> <<>>, rest |-> <<>>]
              ELSE [res |-> "wait", data |-> <<>>, rest |-> stream]
  ELSE LET size == unpack(SubSeq(stream, 1, 4))
           body == SubSeq(stream, 5, Len(stream))
       IN IF Len(body) < size
          THEN IF eof /\ body # <<>> THEN [res |-> "data", data |-> body, rest |-> <<>>]
               ELSE IF eof THEN [res |-> "none", data |-> <<>>, rest |-> <<>>]
               ELSE [res |-> "wait", data |-> <<>>, rest |-> stream]
          ELSE LET data == SubSeq(body, 1, size)
                   rest == SubSeq(body, size + 1, Len(body))
               IN IF data = <<>>
                  THEN [res |-> "none", data |-> <<>>, rest |-> rest]
                  ELSE [res |-> "data", data |-> data, rest |-> rest]

\* NoiseNode.read on a stream holding `stream`, whose writer has closed iff `eof`.
\* res "data": a payload is returned; "none": read() returns None;
\* "wait": readexactly is suspended until more bytes or end-of-stream arrive.
read(stream, eof) ==
  IF Len(stream) < 4
  THEN IF eof THEN [res |-> "none", data |-> <<>>, rest |-> <<>>]
              ELSE [res |-> "wait", data |-> <<>>, rest |-> stream]
  ELSE LET size == unpack(SubSeq(stream, 1, 4))
           body == SubSeq(stream, 5, Len(stream))
       IN IF Len(body) < size
          THEN IF eof THEN [res |-> "none", data |-> <<>>, rest |-> <<>>]
                      ELSE [res |-> "wait", data |-> <<>>, rest |-> stream]
          ELSE LET data == SubSeq(body, 1, size)
                   rest == SubSeq(body, size + 1, Len(body))
               IN IF data = <<>>
                  THEN [res |-> "none", data |-> <<>>, rest |-> rest]
                  ELSE [res |-> "data", data |-> data, rest |-> rest]

\* ------------------------------------------------------------------ status
Status ==
  IF variant = "prometheus" THEN _state
  ELSE IF is_connected THEN "connected"
  ELSE IF is_connecting THEN "connecting" ELSE "disconnected"

\* --------------------------------------------------- P2PNoiseConnection
NoiseEnvelopes == [protocol_id : Protocols, message : {7}]

\* the except clause of P2PNoiseConnection.connect
connect_raises(err) ==
  /\ is_connected' = FALSE
  /\ connect_pc' = "idle"
  /\ Ret("connect", err)

\* NoiseNode._connect without its budget of attempts: neither the check of
\* the counter nor its decrement
_connect_forever(g, reader_exists, oserror) ==
  /\ UNCHANGED _connection_attempts
  /\ _noise_to_aea' = g
  /\ IF oserror
     THEN /\ connect_raises("OSError")
          /\ open_fds' = [open_fds EXCEPT ![g].inbound = @ + 1]
          /\ UNCHANGED <<_aea_to_noise, _stream_reader>>
     ELSE IF reader_exists
     THEN /\ _aea_to_noise' = g
          /\ _stream_reader' = g
          /\ open_fds' = [open_fds EXCEPT ![g].inbound = @ + 1, ![g].outbound = @ + 1]
          /\ connect_pc' = "attach"
          /\ UNCHANGED <<is_connected, last>>
     ELSE /\ connect_pc' = "sleep"
          /\ open_fds' = [open_fds EXCEPT ![g].inbound = @ + 1]
          /\ UNCHANGED <<_aea_to_noise, _stream_reader, is_connected, last>>

\* NoiseNode._connect that sleeps and tries again after any OSError of the
\* open of the outbound FIFO, whatever its errno
_connect_retries_any(g, reader_exists, oserror) ==
  IF _connection_attempts = 1
  THEN /\ connect_raises("Exception")
       /\ UNCHANGED <<_connection_attempts, _noise_to_aea, _aea_to_noise, _stream_reader,
                      open_fds>>
  ELSE /\ _connection_attempts' = _connection_attempts - 1
       /\ _noise_to_aea' = g
       /\ IF reader_exists /\ ~oserror
          THEN /\ _aea_to_noise' = g
               /\ _stream_reader' = g
               /\ open_fds' = [open_fds EXCEPT ![g].inbound = @ + 1, ![g].outbound = @ + 1]
               /\ connect_pc' = "attach"
               /\ UNCHANGED <<is_connected, last>>
          ELSE /\ connect_pc' = "sleep"
               /\ open_fds' = [open_fds EXCEPT ![g].inbound = @ + 1]
               /\ UNCHANGED <<_aea_to_noise, _stream_reader, is_connected, last>>

\* NoiseNode._connect: one attempt at opening the two FIFOs of start() call g.
\* reader_exists: the node process holds the read end of the outbound FIFO;
\* oserror: os.open of the outbound FIFO fails with an errno other than ENXIO.
\* Every attempt opens the inbound FIFO anew and overwrites the descriptor of
\* the attempt before, which stays open.
_connect(g, reader_exists, oserror) ==
  IF _connection_attempts = 1
  THEN /\ connect_raises("Exception")
       /\ UNCHANGED <<_connection_attempts, _noise_to_aea, _aea_to_noise, _stream_reader,
                      open_fds>>
  ELSE /\ _connection_attempts' = _connection_attempts - 1
       /\ _noise_to_aea' = g
       /\ IF oserror
          THEN /\ connect_raises("OSError")
               /\ open_fds' = [open_fds EXCEPT ![g].inbound = @ + 1]
               /\ UNCHANGED <<_aea_to_noise, _stream_reader>>
          ELSE IF reader_exists
          THEN /\ _aea_to_noise' = g
               /\ _stream_reader' = g
               /\ open_fds' = [open_fds EXCEPT ![g].inbound = @ + 1, ![g].outbound = @ + 1]
               /\ connect_pc' = "attach"
               /\ UNCHANGED <<is_connected, last>>
          ELSE /\ connect_pc' = "sleep"
               /\ open_fds' = [open_fds EXCEPT ![g].inbound = @ + 1]
               /\ UNCHANGED <<_aea_to_noise, _stream_reader, is_connected, last>>

\* a node process: "none" (not spawned), "running", "open" (it holds its ends
\* of the FIFOs), "exited" (it ended, Popen.returncode still None), "waited"
\* (it ended and proc.wait() has returned: Popen.returncode is set)
Ended(g) == procs[g] \in {"exited", "waited"}

\* a terminate() that signals whether or not the process was waited for
terminate_unchecked(sg) == IF proc # 0 THEN [sg EXCEPT ![proc] = @ + 1] ELSE sg
\* NoiseNode.stop, self.proc.terminate(): Popen sends SIGTERM unless its
\* returncode is set
terminate(sg) ==
  IF proc # 0 /\ procs[proc] # "waited" THEN [sg EXCEPT ![proc] = @ + 1] ELSE sg
\* NoiseNode.stop, self.proc.wait() has no timeout: it returns when the
\* process has ended, and a process that ignores SIGTERM has not
wait_blocks == proc # 0 /\ procs[proc] \in {"running", "open"} /\ env.sigterm_ignored
\* NoiseNode.stop once proc.wait() has returned
stop(ps) == IF proc # 0 THEN [ps EXCEPT ![proc] = "waited"] ELSE ps

\* P2PNoiseConnection.connect up to its first suspension (or its return);
\* NoiseNode.start runs inside it.
\* fail "start": start() raises before the node process is spawned;
\* fail "open": the first open of the outbound FIFO fails, not with ENXIO.
\* the exit status of `go mod download` (env.deps_rc) is not read: start()
\* only waits for the fetch process.
connect ==
  /\ variant = "p2p_noise"
  /\ UNCHANGED <<http_vars, prom_vars, fr_vars, ctor_vars, pipe_vars, start_vars, pair_vars, fetch_vars>>
  /\ blocked = "no"
  /\ connect_pc = "idle"
  /\ IF is_connected
     THEN /\ Ret("connect", "ok")
          /\ UNCHANGED <<is_connected, is_connecting, connect_pc, noise_vars>>
     ELSE /\ starts < MaxStarts
          /\ is_connecting' = TRUE
          /\ starts' = starts + 1
          /\ tries' = 1
          /\ \E fail \in {"none", "start", "open"} :
               IF fail = "start"
               THEN /\ connect_raises("OSError")
                    /\ UNCHANGED <<_connection_attempts, _noise_to_aea, _aea_to_noise,
                                   _stream_reader, proc, procs, env_file, open_fds>>
               ELSE /\ env_file' = TRUE
                    /\ proc' = starts + 1
                    /\ procs' = [procs EXCEPT ![starts + 1] = "running"]
                    /\ _connect(starts + 1, FALSE, fail = "open")
          /\ UNCHANGED <<fifo_in, fifo_out, _in_queue, _receive_from_node_task,
                         tasks, written, delivered, signals, blocked, env>>
  /\ UNCHANGED <<variant, excluded_protocols, restricted_to_protocols, recv, old_queue>>

\* connect() resumes after asyncio.sleep(2): _connect calls itself
connect_retry ==
  /\ variant = "p2p_noise"
  /\ UNCHANGED <<http_vars, prom_vars, fr_vars, ctor_vars, pipe_vars, start_vars, pair_vars, fetch_vars>>
  /\ blocked = "no"
  /\ connect_pc = "sleep"
  /\ \E oserror \in BOOLEAN : _connect(starts, procs[starts] = "open", oserror)
  /\ tries' = tries + 1
  /\ UNCHANGED <<variant, excluded_protocols, restricted_to_protocols, is_connecting,
                 recv, old_queue, starts, proc, procs, env_file, fifo_in, fifo_out,
                 _in_queue, _receive_from_node_task, tasks, written, delivered,
                 signals, blocked, env>>

\* connect() resumes after loop.connect_read_pipe: start() returns, the
\* status is set, the queue and the pump task are created
connect_done ==
  /\ variant = "p2p_noise"
  /\ UNCHANGED <<http_vars, prom_vars, fr_vars, ctor_vars, pipe_vars, start_vars, pair_vars, fetch_vars>>
  /\ blocked = "no"
  /\ connect_pc = "attach"
  /\ is_connecting' = FALSE
  /\ is_connected' = TRUE
  /\ _in_queue' = NewQueue
  /\ _receive_from_node_task' = starts
  /\ tasks' = [tasks EXCEPT ![starts] = [state |-> "running", reader |-> _stream_reader]]
  /\ IF recv.pc = "waiting" /\ ~recv.old
     THEN recv' = [recv EXCEPT !.old = TRUE] /\ old_queue' = _in_queue.items
     ELSE UNCHANGED <<recv, old_queue>>
  /\ connect_pc' = "idle"
  /\ Ret("connect", "ok")
  /\ UNCHANGED <<variant, excluded_protocols, restricted_to_protocols,
                 _connection_attempts, _noise_to_aea, _aea_to_noise, _stream_reader,
                 starts, tries, proc, procs, env_file, fifo_in, fifo_out, written, delivered,
                 open_fds, signals, blocked, env>>

\* the task running connect() is cancelled while connect() is suspended
connect_cancelled ==
  /\ variant = "p2p_noise"
  /\ UNCHANGED <<http_vars, prom_vars, fr_vars, ctor_vars, pipe_vars, start_vars, pair_vars, fetch_vars>>
  /\ blocked = "no"
  /\ connect_pc \in {"sleep", "attach"}
  /\ connect_raises("CancelledError")
  /\ UNCHANGED <<variant, excluded_protocols, restricted_to_protocols, is_connecting,
                 recv, old_queue, noise_vars>>

\* P2PNoiseConnection.disconnect: it has no await, but NoiseNode.stop may
\* not return from proc.wait(); then the call, and the event loop with it,
\* stays there (stop_returns is its continuation)
disconnect ==
  /\ variant = "p2p_noise"
  /\ UNCHANGED <<http_vars, prom_vars, fr_vars, ctor_vars, pipe_vars, start_vars, pair_vars, fetch_vars>>
  /\ blocked = "no"
  /\ IF ~(is_connected \/ is_connecting)
     THEN /\ Ret("disconnect", "AssertionError")
          /\ UNCHANGED <<is_connected, is_connecting, _receive_from_node_task, tasks,
                         procs, env_file, _in_queue, signals, blocked>>
     ELSE /\ is_connected' = FALSE
          /\ is_connecting' = FALSE
          /\ IF _receive_from_node_task # 0
             THEN /\ tasks' = [tasks EXCEPT ![_receive_from_node_task].state =
                                 IF @ = "running" THEN "cancelled" ELSE @]
                  /\ _receive_from_node_task' = 0
             ELSE UNCHANGED <<tasks, _receive_from_node_task>>
          /\ signals' = terminate(signals)
          /\ IF wait_blocks
             THEN /\ blocked' = "disconnect"
                  /\ UNCHANGED <<procs, env_file, _in_queue, last>>
             ELSE /\ procs' = stop(procs)
                  /\ env_file' = FALSE
                  /\ _in_queue' = IF _in_queue.set THEN put_nowait(_in_queue, NoneItem)
                                  ELSE _in_queue
                  /\ Ret("disconnect", "ok")
                  /\ UNCHANGED blocked
  /\ UNCHANGED <<variant, excluded_protocols, restricted_to_protocols, connect_pc,
                 recv, old_queue, _connection_attempts, _noise_to_aea, _aea_to_noise,
                 _stream_reader, starts, tries, proc, fifo_in, fifo_out, written, delivered,
                 open_fds, env>>

\* proc.wait() returns in NoiseNode.stop because the process has ended by
\* itself: the rest of stop() and of the method that called it
stop_returns ==
  /\ variant = "p2p_noise"
  /\ UNCHANGED <<http_vars, prom_vars, fr_vars, ctor_vars, pipe_vars, start_vars, pair_vars, fetch_vars>>
  /\ blocked # "no"
  /\ procs[proc] = "exited"
  /\ procs' = stop(procs)
  /\ env_file' = FALSE
  /\ blocked' = "no"
  /\ IF blocked = "disconnect"
     THEN /\ _in_queue' = IF _in_queue.set THEN put_nowait(_in_queue, NoneItem)
                          ELSE _in_queue
          /\ Ret("disconnect", "ok")
          /\ UNCHANGED is_connected
     ELSE /\ is_connected' = FALSE
          /\ Ret("receive", "none")
          /\ UNCHANGED _in_queue
  /\ UNCHANGED <<variant, excluded_protocols, restricted_to_protocols, is_connecting,
                 connect_pc, recv, old_queue, _connection_attempts, _noise_to_aea,
                 _aea_to_noise, _stream_reader, starts, tries, proc, fifo_in, fifo_out,
                 _receive_from_node_task, tasks, written, delivered, open_fds, signals, env>>

\* P2PNoiseConnection.receive after self._in_queue.get() has returned `it`
received(it) ==
  IF it.none
  THEN /\ signals' = terminate(signals)
       /\ UNCHANGED delivered
       /\ IF wait_blocks
          THEN /\ blocked' = "receive"
               /\ UNCHANGED <<procs, env_file, is_connected, last>>
          ELSE /\ procs' = stop(procs)
               /\ env_file' = FALSE
               /\ is_connected' = FALSE
               /\ Ret("receive", "none")
               /\ UNCHANGED blocked
  ELSE IF EnvelopeWellFormed(it.data)
  THEN /\ delivered' = Append(delivered, EnvelopeDecode(it.data))
       /\ Ret("receive", "envelope")
       /\ UNCHANGED <<procs, env_file, is_connected, signals, blocked>>
  ELSE /\ Ret("receive", "none")
       /\ UNCHANGED <<procs, env_file, is_connected, delivered, signals, blocked>>

\* P2PNoiseConnection.receive up to its suspension in Queue.get (or its return)
receive ==
  /\ variant = "p2p_noise"
  /\ UNCHANGED <<http_vars, prom_vars, fr_vars, ctor_vars, pipe_vars, start_vars, pair_vars, fetch_vars>>
  /\ blocked = "no"
  /\ recv.pc = "idle"
  /\ IF ~_in_queue.set
     THEN /\ Ret("receive", "none")
          /\ UNCHANGED <<recv, _in_queue, procs, env_file, is_connected, delivered,
                         signals, blocked>>
     ELSE IF _in_queue.items = <<>>
     THEN /\ recv' = [pc |-> "waiting", old |-> FALSE]
          /\ UNCHANGED <<last, _in_queue, procs, env_file, is_connected, delivered,
                         signals, blocked>>
     ELSE /\ received(Head(_in_queue.items))
          /\ _in_queue' = [_in_queue EXCEPT !.items = Tail(@)]
          /\ UNCHANGED recv
  /\ UNCHANGED <<variant, excluded_protocols, restricted_to_protocols, is_connecting,
                 connect_pc, old_queue, _connection_attempts, _noise_to_aea,
                 _aea_to_noise, _stream_reader, starts, tries, proc, fifo_in, fifo_out,
                 _receive_from_node_task, tasks, written, open_fds, env>>

\* the suspended receive() resumes: its queue object holds an item
receive_wake ==
  /\ variant = "p2p_noise"
  /\ UNCHANGED <<http_vars, prom_vars, fr_vars, ctor_vars, pipe_vars, start_vars, pair_vars, fetch_vars>>
  /\ blocked = "no"
  /\ recv.pc = "waiting"
  /\ IF recv.old
     THEN /\ old_queue # <<>>
          /\ received(Head(old_queue))
          /\ old_queue' = <<>>
          /\ UNCHANGED _in_queue
     ELSE /\ _in_queue.items # <<>>
          /\ received(Head(_in_queue.items))
          /\ _in_queue' = [_in_queue EXCEPT !.items = Tail(@)]
          /\ UNCHANGED old_queue
  /\ recv' = [pc |-> "idle", old |-> FALSE]
  /\ UNCHANGED <<variant, excluded_protocols, restricted_to_protocols, is_connecting,
                 connect_pc, _connection_attempts, _noise_to_aea, _aea_to_noise,
                 _stream_reader, starts, tries, proc, fifo_in, fifo_out,
                 _receive_from_node_task, tasks, written, open_fds, env>>

\* the task running receive() is cancelled while suspended in Queue.get
\* a cancellation of receive() that takes along the item its queue.get()
\* was about to return
receive_cancelled_takes_item ==
  /\ variant = "p2p_noise"
  /\ UNCHANGED <<http_vars, prom_vars, fr_vars, ctor_vars, pipe_vars, start_vars, pair_vars, fetch_vars>>
  /\ blocked = "no"
  /\ recv.pc = "waiting"
  /\ recv' = [pc |-> "idle", old |-> FALSE]
  /\ old_queue' = <<>>
  /\ _in_queue' = IF ~recv.old /\ _in_queue.items # <<>>
                  THEN [_in_queue EXCEPT !.items = Tail(@)] ELSE _in_queue
  /\ Ret("receive", "cancelled")
  /\ UNCHANGED <<variant, excluded_protocols, restricted_to_protocols, is_connected,
                 is_connecting, connect_pc, _connection_attempts, _noise_to_aea,
                 _aea_to_noise, _stream_reader, starts, tries, proc, procs, env_file,
                 fifo_in, fifo_out, _receive_from_node_task, tasks, written, delivered,
                 open_fds, signals, blocked, env>>

\* the task running receive() is cancelled while it waits in queue.get()
receive_cancelled ==
  /\ variant = "p2p_noise"
  /\ UNCHANGED <<http_vars, prom_vars, fr_vars, ctor_vars, pipe_vars, start_vars, pair_vars, fetch_vars>>
  /\ blocked = "no"
  /\ recv.pc = "waiting"
  /\ recv' = [pc |-> "idle", old |-> FALSE]
  /\ old_queue' = <<>>
  /\ Ret("receive", "cancelled")
  /\ UNCHANGED <<variant, excluded_protocols, restricted_to_protocols, is_connected,
                 is_connecting, connect_pc, noise_vars>>

\* P2PNoiseConnection.send: NoiseNode.write on the outbound descriptor.
\* os.write raises EBADF on -1 and EPIPE when the read end is closed.
send(e) ==
  /\ variant = "p2p_noise"
  /\ UNCHANGED <<http_vars, prom_vars, fr_vars, ctor_vars, pipe_vars, start_vars, pair_vars, fetch_vars>>
  /\ blocked = "no"
  /\ IF _aea_to_noise = -1 \/ procs[_aea_to_noise] # "open"
     THEN /\ Ret("send", "OSError")
          /\ UNCHANGED fifo_out
     ELSE /\ Len(fifo_out[_aea_to_noise]) < MaxSends * 6
          /\ fifo_out' = [fifo_out EXCEPT ![_aea_to_noise] = @ \o write(EnvelopeEncode(e))]
          /\ Ret("send", "ok")
  /\ UNCHANGED <<variant, excluded_protocols, restricted_to_protocols, is_connected,
                 is_connecting, connect_pc, recv, old_queue, _connection_attempts,
                 _noise_to_aea, _aea_to_noise, _stream_reader, starts, tries, proc, procs,
                 env_file, fifo_in, _in_queue, _receive_from_node_task, tasks,
                 written, delivered, open_fds, signals, blocked, env>>

\* P2PNoiseConnection._receive_from_node: one turn of the loop of pump task t
_receive_from_node(t) ==
  /\ variant = "p2p_noise"
  /\ UNCHANGED <<http_vars, prom_vars, fr_vars, ctor_vars, pipe_vars, start_vars, pair_vars, fetch_vars>>
  /\ blocked = "no"
  /\ tasks[t].state = "running"
  /\ LET r == tasks[t].reader
         got == read(fifo_in[r], Ended(r))
     IN /\ got.res # "wait"
        /\ fifo_in' = [fifo_in EXCEPT ![r] = got.rest]
        /\ IF got.res = "none"
           THEN /\ tasks' = [tasks EXCEPT ![t].state = "finished"]
                /\ UNCHANGED _in_queue
           ELSE /\ _in_queue' = put_nowait(_in_queue, Item(got.data))
                /\ tasks' = [tasks EXCEPT ![t].reader = _stream_reader]
        \* at end-of-stream the read transport of connect_read_pipe closes
        \* the descriptor it was given
        /\ open_fds' = IF got.res = "none" /\ read(fifo_in[r], FALSE).res = "wait"
                       THEN [open_fds EXCEPT ![r].inbound = @ - 1]
                       ELSE open_fds
  /\ UNCHANGED <<shared_vars, _connection_attempts, _noise_to_aea, _aea_to_noise,
                 _stream_reader, starts, tries, proc, procs, env_file, fifo_out,
                 _receive_from_node_task, written, delivered, signals, blocked, env>>

\* ------------------------------------------------- the node process (go run)
RECURSIVE FramesWritten(_)
FramesWritten(g) == IF g = 0 THEN 0 ELSE Len(written[g]) + FramesWritten(g - 1)

\* some reader may still consume what process g writes: its FIFO is the one
\* at the node's paths, or a pump task is suspended on its stream reader
Readable(g) == g = starts \/ \E t \in Gens : tasks[t].state = "running" /\ tasks[t].reader = g

\* the node opens its ends of the two FIFOs named in the env file, after at
\* most d attempts of _connect have failed
node_opens_within(d) ==
  /\ variant = "p2p_noise"
  /\ UNCHANGED <<http_vars, prom_vars, fr_vars, ctor_vars, pipe_vars, start_vars, pair_vars, fetch_vars>>
  /\ starts > 0
  /\ procs[starts] = "running"
  /\ tries <= d
  /\ procs' = [procs EXCEPT ![starts] = "open"]
  /\ UNCHANGED <<shared_vars, _connection_attempts, _noise_to_aea, _aea_to_noise,
                 _stream_reader, starts, tries, proc, env_file, fifo_in, fifo_out, _in_queue,
                 _receive_from_node_task, tasks, written, delivered, open_fds, signals,
                 blocked, env>>

node_opens == node_opens_within(MaxOpenDelay)
\* the node opens them at any time while the manager retries
node_opens_anytime == node_opens_within(ConnectionAttempts)

\* the node writes one frame to the inbound FIFO
node_writes(g) ==
  /\ variant = "p2p_noise"
  /\ UNCHANGED <<http_vars, prom_vars, fr_vars, ctor_vars, pipe_vars, start_vars, pair_vars, fetch_vars>>
  /\ procs[g] = "open"
  /\ Readable(g)
  /\ FramesWritten(MaxStarts) < MaxFrames
  /\ \E payload \in {<<1, FramesWritten(MaxStarts) + 1>>, <<>>} :
       /\ fifo_in' = [fifo_in EXCEPT ![g] = @ \o write(payload)]
       /\ written' = [written EXCEPT ![g] = Append(@, payload)]
  /\ UNCHANGED <<shared_vars, _connection_attempts, _noise_to_aea, _aea_to_noise,
                 _stream_reader, starts, tries, proc, procs, env_file, fifo_out, _in_queue,
                 _receive_from_node_task, tasks, delivered, open_fds, signals, blocked, env>>

\* the node exits by itself, closing its ends of the FIFOs (a node that exits
\* before opening them looks to the manager like one that never opens them)
node_exits(g) ==
  /\ variant = "p2p_noise"
  /\ UNCHANGED <<http_vars, prom_vars, fr_vars, ctor_vars, pipe_vars, start_vars, pair_vars, fetch_vars>>
  /\ procs[g] = "open"
  /\ procs' = [procs EXCEPT ![g] = "exited"]
  /\ UNCHANGED <<shared_vars, _connection_attempts, _noise_to_aea, _aea_to_noise,
                 _stream_reader, starts, tries, proc, env_file, fifo_in, fifo_out, _in_queue,
                 _receive_from_node_task, tasks, written, delivered, open_fds, signals,
                 blocked, env>>

\* the node process ends while it writes a frame: the first k bytes of the
\* frame reach the inbound FIFO, then its end of the FIFO is closed
node_exits_midframe(g, k) ==
  /\ variant = "p2p_noise"
  /\ UNCHANGED <<http_vars, prom_vars, fr_vars, ctor_vars, pipe_vars, start_vars, pair_vars, fetch_vars>>
  /\ procs[g] = "open"
  /\ Readable(g)
  /\ LET frame == write(<<1, FramesWritten(MaxStarts) + 1>>)
     IN  /\ k \in 1..(Len(frame) - 1)
         /\ fifo_in' = [fifo_in EXCEPT ![g] = @ \o SubSeq(frame, 1, k)]
  /\ procs' = [procs EXCEPT ![g] = "exited"]
  /\ UNCHANGED <<shared_vars, _connection_attempts, _noise_to_aea, _aea_to_noise,
                 _stream_reader, starts, tries, proc, env_file, fifo_out, _in_queue,
                 _receive_from_node_task, tasks, written, delivered, open_fds, signals,
                 blocked, env>>

\* ------------------------------------------------- HTTPClientConnection
HttpEnvelopes == [protocol_id : Protocols, type : {"HttpMessage", "Message"},
                  performative : {"REQUEST", "RESPONSE"}]

\* the queue object a suspended receive() holds is no longer the field's value
rebind(q) ==
  IF recv.pc = "waiting" /\ ~recv.old
  THEN recv' = [recv EXCEPT !.old = TRUE] /\ old_queue' = q.items
  ELSE UNCHANGED <<recv, old_queue>>

\* HTTPClientConnection.connect
\* HTTPClientConnection.connect without its test of the status
http_connect_anew ==
  /\ variant = "http_client"
  /\ is_connected' = TRUE
  /\ in_queue' = NewQueue
  /\ rebind(in_queue)
  /\ Ret("connect", "ok")
  /\ UNCHANGED <<variant, excluded_protocols, restricted_to_protocols, is_connecting,
                 connect_pc, is_stopped, requests, noise_vars, prom_vars, fr_vars, ctor_vars, pipe_vars, start_vars, pair_vars, fetch_vars>>

http_connect ==
  /\ variant = "http_client"
  /\ IF ~is_connected
     THEN /\ is_connected' = TRUE
          /\ in_queue' = NewQueue
          /\ rebind(in_queue)
     ELSE UNCHANGED <<is_connected, in_queue, recv, old_queue>>
  /\ Ret("connect", "ok")
  /\ UNCHANGED <<variant, excluded_protocols, restricted_to_protocols, is_connecting,
                 connect_pc, is_stopped, requests, noise_vars, prom_vars, fr_vars, ctor_vars, pipe_vars, start_vars, pair_vars, fetch_vars>>

\* HTTPClientChannel.disconnect
channel_disconnect == IF ~is_stopped THEN TRUE ELSE is_stopped

\* HTTPClientConnection.disconnect
http_disconnect ==
  /\ variant = "http_client"
  /\ IF is_connected
     THEN /\ is_connected' = FALSE
          /\ is_stopped' = channel_disconnect
     ELSE UNCHANGED <<is_connected, is_stopped>>
  /\ Ret("disconnect", "ok")
  /\ UNCHANGED <<variant, excluded_protocols, restricted_to_protocols, is_connecting,
                 connect_pc, recv, old_queue, in_queue, requests, noise_vars,
                 prom_vars, fr_vars, ctor_vars, pipe_vars, start_vars, pair_vars, fetch_vars>>

\* HTTPClientChannel.agent_address and .connection_id, given at construction
AgentAddress == "agent"
HttpConnectionId == "fetchai/http_client"
\* HTTPClientChannel.to_envelope: the envelope made of a response, as
\* <<to, sender, protocol_id, context.connection_id, performative, status_code>>
to_envelope(connection_id, code) ==
  <<AgentAddress, "HTTP Server", "http", connection_id, "RESPONSE", code>>

\* HTTPClientChannel.send of a channel whose excluded_protocols is None: the
\* body of the method is skipped
channel_send_skipped(e, neterror, code) ==
  Ret("send", "ok") /\ UNCHANGED <<requests, in_queue>>

\* HTTPClientChannel.send that gives up its queue when it refuses an envelope
channel_send_drops_queue(e, neterror, code) ==
  IF e.protocol_id \in excluded_protocols
  THEN Ret("send", "ValueError") /\ in_queue' = NoQueue /\ UNCHANGED requests
  ELSE IF e.type # "HttpMessage"
  THEN Ret("send", "AssertionError") /\ UNCHANGED <<requests, in_queue>>
  ELSE IF e.performative = "REQUEST"
  THEN /\ requests < MaxSends
       /\ requests' = requests + 1
       /\ IF neterror
          THEN Ret("send", "RequestException") /\ UNCHANGED in_queue
          ELSE /\ Ret("send", "ok")
               /\ in_queue' = put_nowait(in_queue, Item(to_envelope(HttpConnectionId, code)))
  ELSE Ret("send", "ok") /\ UNCHANGED <<requests, in_queue>>

\* HTTPClientChannel.send; neterror: requests.request raises
channel_send(e, neterror, code) ==
  IF e.protocol_id \in excluded_protocols
  THEN Ret("send", "ValueError") /\ UNCHANGED <<requests, in_queue>>
  ELSE IF e.type # "HttpMessage"
  THEN Ret("send", "AssertionError") /\ UNCHANGED <<requests, in_queue>>
  ELSE IF e.performative = "REQUEST"
  THEN /\ requests < MaxSends
       /\ requests' = requests + 1
       /\ IF neterror
          THEN Ret("send", "RequestException") /\ UNCHANGED in_queue
          ELSE /\ Ret("send", "ok")
               /\ in_queue' = put_nowait(in_queue, Item(to_envelope(HttpConnectionId, code)))
  ELSE Ret("send", "ok") /\ UNCHANGED <<requests, in_queue>>

\* HTTPClientConnection.send
http_send(e) ==
  /\ variant = "http_client"
  /\ \E neterror \in BOOLEAN, code \in {200} :
       IF ~is_connected
       THEN Ret("send", "ConnectionError") /\ UNCHANGED <<requests, in_queue>>
       ELSE channel_send(e, neterror, code)
  /\ UNCHANGED <<variant, excluded_protocols, restricted_to_protocols, is_connected,
                 is_connecting, connect_pc, recv, old_queue, is_stopped, noise_vars,
                 prom_vars, fr_vars, ctor_vars, pipe_vars, start_vars, pair_vars, fetch_vars>>

\* HTTPClientConnection.receive up to its suspension in Queue.get (or its return)
http_receive ==
  /\ variant = "http_client"
  /\ recv.pc = "idle"
  /\ IF ~is_connected
     THEN Ret("receive", "ConnectionError") /\ UNCHANGED <<recv, in_queue>>
     ELSE IF in_queue.items = <<>>
     THEN recv' = [pc |-> "waiting", old |-> FALSE] /\ UNCHANGED <<last, in_queue>>
     ELSE /\ Ret("receive", IF Head(in_queue.items).none THEN "none" ELSE "envelope")
          /\ in_queue' = [in_queue EXCEPT !.items = Tail(@)]
          /\ UNCHANGED recv
  /\ UNCHANGED <<variant, excluded_protocols, restricted_to_protocols, is_connected,
                 is_connecting, connect_pc, old_queue, is_stopped, requests,
                 noise_vars, prom_vars, fr_vars, ctor_vars, pipe_vars, start_vars, pair_vars, fetch_vars>>

\* the suspended receive() resumes: its queue object holds an item
http_receive_wake ==
  /\ variant = "http_client"
  /\ recv.pc = "waiting"
  /\ IF recv.old
     THEN /\ old_queue # <<>>
          /\ Ret("receive", IF Head(old_queue).none THEN "none" ELSE "envelope")
          /\ old_queue' = <<>>
          /\ UNCHANGED in_queue
     ELSE /\ in_queue.items # <<>>
          /\ Ret("receive", IF Head(in_queue.items).none THEN "none" ELSE "envelope")
          /\ in_queue' = [in_queue EXCEPT !.items = Tail(@)]
          /\ UNCHANGED old_queue
  /\ recv' = [pc |-> "idle", old |-> FALSE]
  /\ UNCHANGED <<variant, excluded_protocols, restricted_to_protocols, is_connected,
                 is_connecting, connect_pc, is_stopped, requests, noise_vars,
                 prom_vars, fr_vars, ctor_vars, pipe_vars, start_vars, pair_vars, fetch_vars>>

\* the task running receive() is cancelled while suspended in Queue.get
http_receive_cancelled ==
  /\ variant = "http_client"
  /\ recv.pc = "waiting"
  /\ recv' = [pc |-> "idle", old |-> FALSE]
  /\ old_queue' = <<>>
  /\ Ret("receive", "cancelled")
  /\ UNCHANGED <<variant, excluded_protocols, restricted_to_protocols, is_connected,
                 is_connecting, connect_pc, http_vars, noise_vars, prom_vars, fr_vars, ctor_vars, pipe_vars, start_vars, pair_vars, fetch_vars>>

\* ------------------------------------------------- PrometheusConnection
Titles == {"t"}
PromEnvelopes == [protocol_id : Protocols, type : {"PrometheusMessage", "Message"},
                  performative : {"ADD_METRIC", "UPDATE_METRIC", "RESPONSE"},
                  title : Titles, metric_type : {"Counter", "Gauge", "Bogus"},
                  callable : {"inc", "bogus"}]

\* Connection.is_connected, Connection.is_disconnected, Connection._ensure_connected
prom_is_connected == _state = "connected"
prom_is_disconnected == _state = "disconnected"

\* PrometheusConnection.connect with PrometheusChannel.connect and the
\* connect context of Connection; bindfails: start_http_server raises
prom_connect ==
  /\ variant = "prometheus"
  /\ \E bindfails \in BOOLEAN :
       IF prom_is_connected
       THEN Ret("connect", "ok") /\ UNCHANGED <<_state, _queue, server, recv, old_queue>>
       ELSE IF _queue.set
       THEN /\ _state' = "connected"
            /\ Ret("connect", "ok")
            /\ UNCHANGED <<_queue, server, recv, old_queue>>
       ELSE /\ _queue' = NewQueue
            /\ UNCHANGED <<recv, old_queue>>
            /\ IF server \/ bindfails
               THEN _state' = "disconnected" /\ Ret("connect", "OSError") /\ UNCHANGED server
               ELSE _state' = "connected" /\ Ret("connect", "ok") /\ server' = TRUE
  /\ UNCHANGED <<variant, excluded_protocols, restricted_to_protocols, is_connected,
                 is_connecting, connect_pc, metrics, updates, noise_vars, http_vars,
                 fr_vars, ctor_vars, pipe_vars, start_vars, pair_vars, fetch_vars>>

\* PrometheusConnection.disconnect with PrometheusChannel.disconnect
prom_disconnect ==
  /\ variant = "prometheus"
  /\ IF prom_is_disconnected
     THEN UNCHANGED <<_state, _queue, recv, old_queue>>
     ELSE /\ _state' = "disconnected"
          /\ IF _queue.set
             THEN /\ _queue' = NoQueue
                  /\ rebind(put_nowait(_queue, NoneItem))
             ELSE UNCHANGED <<_queue, recv, old_queue>>
  /\ Ret("disconnect", "ok")
  /\ UNCHANGED <<variant, excluded_protocols, restricted_to_protocols, is_connected,
                 is_connecting, connect_pc, metrics, updates, server, noise_vars,
                 http_vars, fr_vars, ctor_vars, pipe_vars, start_vars, pair_vars, fetch_vars>>

\* handle_prometheus_message that registers the metric again when the title
\* is taken
handle_prometheus_message_replaces(e, dialogue) ==
  IF e.type # "PrometheusMessage"
  THEN Ret("send", "AEAEnforceError") /\ UNCHANGED <<metrics, updates, _queue>>
  ELSE IF ~dialogue
  THEN Ret("send", "ok") /\ UNCHANGED <<metrics, updates, _queue>>
  ELSE IF e.performative = "ADD_METRIC"
  THEN IF metrics[e.title] # "" /\ e.metric_type # "Bogus"
       THEN /\ metrics' = [metrics EXCEPT ![e.title] = e.metric_type]
            /\ _queue' = put_nowait(_queue, Item(<<409>>))
            /\ Ret("send", "ok") /\ UNCHANGED updates
       ELSE IF e.metric_type = "Bogus"
       THEN /\ _queue' = put_nowait(_queue, Item(<<404>>))
            /\ Ret("send", "ok") /\ UNCHANGED <<metrics, updates>>
       ELSE /\ metrics' = [metrics EXCEPT ![e.title] = e.metric_type]
            /\ _queue' = put_nowait(_queue, Item(<<200>>))
            /\ Ret("send", "ok") /\ UNCHANGED updates
  ELSE IF e.performative = "UPDATE_METRIC"
  THEN IF metrics[e.title] = ""
       THEN /\ _queue' = put_nowait(_queue, Item(<<404>>))
            /\ Ret("send", "ok") /\ UNCHANGED <<metrics, updates>>
       ELSE IF e.callable = "bogus"
       THEN /\ _queue' = put_nowait(_queue, Item(<<400>>))
            /\ Ret("send", "ok") /\ UNCHANGED <<metrics, updates>>
       ELSE /\ updates < MaxSends
            /\ updates' = updates + 1
            /\ _queue' = put_nowait(_queue, Item(<<200>>))
            /\ Ret("send", "ok") /\ UNCHANGED metrics
  ELSE Ret("send", "UnboundLocalError") /\ UNCHANGED <<metrics, updates, _queue>>

\* PrometheusChannel.handle_prometheus_message; dialogue: the dialogues
\* accept the message
handle_prometheus_message(e, dialogue) ==
  IF e.type # "PrometheusMessage"
  THEN Ret("send", "AEAEnforceError") /\ UNCHANGED <<metrics, updates, _queue>>
  ELSE IF ~dialogue
  THEN Ret("send", "ok") /\ UNCHANGED <<metrics, updates, _queue>>
  ELSE IF e.performative = "ADD_METRIC"
  THEN IF metrics[e.title] # ""
       THEN /\ _queue' = put_nowait(_queue, Item(<<409>>))
            /\ Ret("send", "ok") /\ UNCHANGED <<metrics, updates>>
       ELSE IF e.metric_type = "Bogus"
       THEN /\ _queue' = put_nowait(_queue, Item(<<404>>))
            /\ Ret("send", "ok") /\ UNCHANGED <<metrics, updates>>
       ELSE /\ metrics' = [metrics EXCEPT ![e.title] = e.metric_type]
            /\ _queue' = put_nowait(_queue, Item(<<200>>))
            /\ Ret("send", "ok") /\ UNCHANGED updates
  ELSE IF e.performative = "UPDATE_METRIC"
  THEN IF metrics[e.title] = ""
       THEN /\ _queue' = put_nowait(_queue, Item(<<404>>))
            /\ Ret("send", "ok") /\ UNCHANGED <<metrics, updates>>
       ELSE IF e.callable = "bogus"
       THEN /\ _queue' = put_nowait(_queue, Item(<<400>>))
            /\ Ret("send", "ok") /\ UNCHANGED <<metrics, updates>>
       ELSE /\ updates < MaxSends
            /\ updates' = updates + 1
            /\ _queue' = put_nowait(_queue, Item(<<200>>))
            /\ Ret("send", "ok") /\ UNCHANGED metrics
  ELSE Ret("send", "UnboundLocalError") /\ UNCHANGED <<metrics, updates, _queue>>

\* PrometheusConnection.send with PrometheusChannel.send
prom_send(e) ==
  /\ variant = "prometheus"
  /\ \E dialogue \in BOOLEAN :
       IF ~prom_is_connected
       THEN Ret("send", "ConnectionError") /\ UNCHANGED <<metrics, updates, _queue>>
       ELSE IF e.protocol_id # "prometheus"
       THEN Ret("send", "ValueError") /\ UNCHANGED <<metrics, updates, _queue>>
       ELSE /\ Len(_queue.items) < MaxSends
            /\ handle_prometheus_message(e, dialogue)
  /\ UNCHANGED <<variant, excluded_protocols, restricted_to_protocols, is_connected,
                 is_connecting, connect_pc, recv, old_queue, _state, server,
                 noise_vars, http_vars, fr_vars, ctor_vars, pipe_vars, start_vars, pair_vars, fetch_vars>>

\* PrometheusConnection.receive up to its suspension in Queue.get (or its return)
prom_receive ==
  /\ variant = "prometheus"
  /\ recv.pc = "idle"
  /\ IF ~prom_is_connected
     THEN Ret("receive", "ConnectionError") /\ UNCHANGED <<recv, _queue>>
     ELSE IF _queue.items = <<>>
     THEN recv' = [pc |-> "waiting", old |-> FALSE] /\ UNCHANGED <<last, _queue>>
     ELSE /\ Ret("receive", IF Head(_queue.items).none THEN "none" ELSE "envelope")
          /\ _queue' = [_queue EXCEPT !.items = Tail(@)]
          /\ UNCHANGED recv
  /\ UNCHANGED <<variant, excluded_protocols, restricted_to_protocols, is_connected,
                 is_connecting, connect_pc, old_queue, _state, metrics, updates,
                 server, noise_vars, http_vars, fr_vars, ctor_vars, pipe_vars, start_vars, pair_vars, fetch_vars>>

\* the suspended receive() resumes: its queue object holds an item
prom_receive_wake ==
  /\ variant = "prometheus"
  /\ recv.pc = "waiting"
  /\ IF recv.old
     THEN /\ old_queue # <<>>
          /\ Ret("receive", IF Head(old_queue).none THEN "none" ELSE "envelope")
          /\ old_queue' = <<>>
          /\ UNCHANGED _queue
     ELSE /\ _queue.items # <<>>
          /\ Ret("receive", IF Head(_queue.items).none THEN "none" ELSE "envelope")
          /\ _queue' = [_queue EXCEPT !.items = Tail(@)]
          /\ UNCHANGED old_queue
  /\ recv' = [pc |-> "idle", old |-> FALSE]
  /\ UNCHANGED <<variant, excluded_protocols, restricted_to_protocols, is_connected,
                 is_connecting, connect_pc, _state, metrics, updates, server,
                 noise_vars, http_vars, fr_vars, ctor_vars, pipe_vars, start_vars, pair_vars, fetch_vars>>

\* the task running receive() is cancelled while suspended in Queue.get
\* a cancellation of receive() handled like an error of the channel: the
\* connection goes to disconnected
prom_receive_cancelled_disconnects ==
  /\ variant = "prometheus"
  /\ recv.pc = "waiting"
  /\ recv' = [pc |-> "idle", old |-> FALSE]
  /\ old_queue' = <<>>
  /\ _state' = "disconnected"
  /\ Ret("receive", "cancelled")
  /\ UNCHANGED <<variant, excluded_protocols, restricted_to_protocols, is_connected,
                 is_connecting, connect_pc, _queue, metrics, updates, server,
                 noise_vars, http_vars, fr_vars, ctor_vars, pipe_vars, start_vars, pair_vars, fetch_vars>>

prom_receive_cancelled ==
  /\ variant = "prometheus"
  /\ recv.pc = "waiting"
  /\ recv' = [pc |-> "idle", old |-> FALSE]
  /\ old_queue' = <<>>
  /\ Ret("receive", "cancelled")
  /\ UNCHANGED <<variant, excluded_protocols, restricted_to_protocols, is_connected,
                 is_connecting, connect_pc, prom_vars, noise_vars, http_vars, fr_vars, ctor_vars, pipe_vars, start_vars, pair_vars, fetch_vars>>

\* ------------------------------------------------------ framing round trip
\* payloads written through NoiseNode.write and read back by NoiseNode.read
\* from the same byte stream (a loopback in place of the node process)
Payloads == {<<>>, <<1>>, <<2, 3>>, <<0, 0, 0, 1>>}
RECURSIVE SeqsUpTo(_, _)
SeqsUpTo(S, n) ==
  IF n = 0 THEN {<<>>}
  ELSE LET shorter == SeqsUpTo(S, n - 1)
       IN shorter \cup {Append(q, x) : q \in shorter, x \in S}

\* NoiseNode.write of the next payload
fr_write ==
  /\ variant = "framing"
  /\ fr_next <= Len(fr_in)
  /\ fr_stream' = fr_stream \o write(fr_in[fr_next])
  /\ fr_next' = fr_next + 1
  /\ UNCHANGED <<fr_in, fr_out, fr_open, shared_vars, noise_vars, http_vars, prom_vars,
                 ctor_vars, pipe_vars, start_vars, pair_vars, fetch_vars>>

\* one NoiseNode.read by the reading loop; the stream ends after the last write
fr_read ==
  /\ variant = "framing"
  /\ fr_open
  /\ LET got == read(fr_stream, fr_next > Len(fr_in))
     IN /\ got.res # "wait"
        /\ fr_stream' = got.rest
        /\ IF got.res = "none"
           THEN fr_open' = FALSE /\ UNCHANGED fr_out
           ELSE fr_out' = Append(fr_out, got.data) /\ UNCHANGED fr_open
  /\ UNCHANGED <<fr_in, fr_next, shared_vars, noise_vars, http_vars, prom_vars,
                 ctor_vars, pipe_vars, start_vars, pair_vars, fetch_vars>>

\* ------------------------------------- construction of P2PNoiseConnection
\* Curve25519PrivKey objects a caller may pass
Keys == {"k1", "k2"}
\* str(key.pub()): the hex encoding of the verify key of the signing key
PubStr(k) == IF k = "k1" THEN "pub1" ELSE "pub2"
\* the address keyword a caller may pass ("none": not passed)
Addresses == {"none", "pub1", "agent"}
\* Uri objects a caller may pass; "u3" is a second object for the host and
\* port of "u1", "u0" the Uri() that NoiseNode.__init__ makes by itself
Uris == {"u1", "u2", "u3"}
\* Uri.__str__, "{}:{}".format(self._host, self._port)
Uri_str(u) == IF u = "u2" THEN "127.0.0.1:9001"
              ELSE IF u = "u0" THEN "127.0.0.1:5000" ELSE "127.0.0.1:9000"
\* NoiseNode.__init__, self.uri = uri if uri is not None else Uri(): Uri()
\* draws its port at random in 5000..10000
NodeUris(uri) == IF uri = "none" THEN {"u0", "u1"} ELSE {uri}
\* ",".join(l), the pieces of the joined string in order
RECURSIVE join(_)
join(l) == IF l = <<>> THEN <<>>
           ELSE IF Len(l) = 1 THEN l
           ELSE <<Head(l), ",">> \o join(Tail(l))
\* NoiseNode.start that writes every entry peer to the startup config
AEA_P2P_ENTRY_URIS_unfiltered(entry_peers, uri) ==
  join([i \in 1..Len(entry_peers) |-> Uri_str(entry_peers[i])])
\* NoiseNode.start, the value of the AEA_P2P_ENTRY_URIS line of the env file:
\* [str(uri) for uri in self.entry_peers if str(uri) != str(self.uri)] joined
AEA_P2P_ENTRY_URIS(entry_peers, uri) ==
  LET own(x) == x # Uri_str(uri)
  IN  join(SelectSeq([i \in 1..Len(entry_peers) |-> Uri_str(entry_peers[i])], own))
\* the entry_peers argument: None, or a list of Uri
EntryPeers == {[none |-> TRUE, items |-> <<>>]}
                \cup {[none |-> FALSE, items |-> l] : l \in SeqsUpTo(Uris, MaxPeers)}
\* the arguments of P2PNoiseConnection.__init__ and what the constructor
\* finds on the host: go, whether shutil.which("go") finds the runtime
CtorArgs == [key : Keys, address : Addresses, uri : {"none"} \cup Uris,
             entry_peers : EntryPeers, go : BOOLEAN]

\* P2PNoiseConnection.__init__ that hands the caller's address to Connection
kwargs_address_kept(passed, node_pub) == IF passed = "none" THEN node_pub ELSE passed
\* P2PNoiseConnection.__init__, kwargs["address"] = self.node.pub
kwargs_address(passed, node_pub) == node_pub

\* P2PNoiseConnection.__init__ without its check of the genesis node
genesis_unchecked(uri, entry_peers) == FALSE
\* P2PNoiseConnection.__init__: uri is None and (entry_peers is None or
\* len(entry_peers) == 0)
genesis_without_uri(uri, entry_peers) ==
  uri = "none" /\ (entry_peers.none \/ Len(entry_peers.items) = 0)

\* P2PNoiseConnection.__init__ with NoiseNode.__init__ and
\* Connection.__init__ inside it. NoiseNode.__init__ makes a temporary
\* directory and the two path names in it: no FIFO, no process.
P2PNoiseConnection_init ==
  /\ variant = "p2p_noise"
  /\ ctor.state = "args"
  /\ IF ~ctor.go
     THEN /\ ctor' = [ctor EXCEPT !.state = "SystemExit"]
          /\ UNCHANGED <<address, pub>>
     ELSE /\ pub' = PubStr(ctor.key)
          /\ address' = kwargs_address(ctor.address, PubStr(ctor.key))
          /\ \E u \in NodeUris(ctor.uri) :
               ctor' = [ctor EXCEPT !.state =
                          IF genesis_without_uri(ctor.uri, ctor.entry_peers)
                          THEN "ValueError" ELSE "constructed",
                        !.node_uri = u]
  /\ UNCHANGED <<shared_vars, noise_vars, http_vars, prom_vars, fr_vars, pipe_vars, start_vars, pair_vars, fetch_vars>>

\* ------------------------------------------------------------ specification
\* the host on which every start of the node goes well
Benign == [sigterm_ignored |-> FALSE, deps_rc |-> 0]
Envs == [sigterm_ignored : BOOLEAN, deps_rc : {0, 1}]
\* an overlay connection built with a bind URI
Built == [state |-> "constructed", key |-> "k1", address |-> "agent", uri |-> "u1",
          node_uri |-> "u1",
          entry_peers |-> [none |-> TRUE, items |-> <<>>], go |-> TRUE]
InitBuilt ==
  /\ ctor = Built
  /\ pub = PubStr(Built.key)
  /\ address = PubStr(Built.key)

InitShared ==
  /\ is_connected = FALSE
  /\ is_connecting = FALSE
  /\ connect_pc = "idle"
  /\ recv = [pc |-> "idle", old |-> FALSE]
  /\ old_queue = <<>>
  /\ last = [op |-> "init", res |-> "ok"]

InitNoiseVars ==
  /\ _connection_attempts = ConnectionAttempts
  /\ _noise_to_aea = -1
  /\ _aea_to_noise = -1
  /\ _stream_reader = 0
  /\ starts = 0
  /\ tries = 0
  /\ proc = 0
  /\ procs = [g \in Gens |-> "none"]
  /\ env_file = FALSE
  /\ fifo_in = [g \in Gens |-> <<>>]
  /\ fifo_out = [g \in Gens |-> <<>>]
  /\ _in_queue = NoQueue
  /\ _receive_from_node_task = 0
  /\ tasks = [g \in Gens |-> [state |-> "none", reader |-> 0]]
  /\ written = [g \in Gens |-> <<>>]
  /\ delivered = <<>>
  /\ open_fds = [g \in Gens |-> [inbound |-> 0, outbound |-> 0]]
  /\ signals = [g \in Gens |-> 0]
  /\ blocked = "no"

InitEnv == env = Benign

InitHttpVars ==
  /\ in_queue = NoQueue
  /\ is_stopped = TRUE
  /\ requests = 0

InitFetchVars ==
  /\ agent_config = [author |-> "a1", name |-> "n1", version |-> "1.0.0"]
  /\ public_id = [author |-> "a1", name |-> "n1", version |-> "1.0.0"]
  /\ target_path = FALSE
  /\ copied = FALSE
  /\ fetch_error = ""

InitPromVars ==
  /\ _state = "disconnected"
  /\ _queue = NoQueue
  /\ metrics = [t \in Titles |-> ""]
  /\ updates = 0
  /\ server = FALSE

\* ---------------------------------------- two connections, end to end
\* the addresses of the two connections: str of their public keys
PairAddresses == <<"pub1", "pub2">>
AddressByte(a) == IF a = "pub1" THEN 1 ELSE 2
ByteAddress(b) == IF b = 1 THEN "pub1" ELSE "pub2"
\* envelopes addressed to connection 2
PairEnvelopes == [to : {PairAddresses[2]}, sender : {"pub1", "pub2"},
                  protocol_id : {"http"}, message : {7, 8}]
\* Envelope.encode / Envelope.decode with the four fields of an envelope
PairEncode(e) == <<AddressByte(e.to), AddressByte(e.sender), ProtocolByte(e.protocol_id),
                   e.message>>
PairDecode(d) == [to |-> ByteAddress(d[1]), sender |-> ByteAddress(d[2]),
                  protocol_id |-> ByteProtocol(d[3]), message |-> d[4]]

\* connection 1: P2PNoiseConnection.send, NoiseNode.write on an outbound
\* FIFO with room for the frame
pair_send(e) ==
  /\ variant = "pair"
  /\ Len(pair_sent) < MaxPairSends
  /\ pair_out' = pair_out \o write(PairEncode(e))
  /\ pair_sent' = Append(pair_sent, e)
  /\ UNCHANGED <<pair_net, pair_in, pair_queue, pair_recv, pair_got>>
  /\ UNCHANGED <<shared_vars, noise_vars, http_vars, prom_vars, fr_vars, ctor_vars,
                 pipe_vars, start_vars, fetch_vars>>

\* node 1 reads one frame from connection 1's outbound FIFO and sends its
\* payload to the peer that holds the envelope's address
node_forwards ==
  /\ variant = "pair"
  /\ read(pair_out, FALSE).res = "data"
  /\ pair_out' = read(pair_out, FALSE).rest
  /\ pair_net' = Append(pair_net, read(pair_out, FALSE).data)
  /\ UNCHANGED <<pair_in, pair_queue, pair_recv, pair_sent, pair_got>>
  /\ UNCHANGED <<shared_vars, noise_vars, http_vars, prom_vars, fr_vars, ctor_vars,
                 pipe_vars, start_vars, fetch_vars>>

\* node 2 writes a payload it got from the overlay, framed, to connection
\* 2's inbound FIFO
node_delivers ==
  /\ variant = "pair"
  /\ pair_net # <<>>
  /\ pair_in' = pair_in \o write(Head(pair_net))
  /\ pair_net' = Tail(pair_net)
  /\ UNCHANGED <<pair_out, pair_queue, pair_recv, pair_sent, pair_got>>
  /\ UNCHANGED <<shared_vars, noise_vars, http_vars, prom_vars, fr_vars, ctor_vars,
                 pipe_vars, start_vars, fetch_vars>>

\* a pump that reads a frame and puts nothing on the queue
pair_receive_from_node_drops ==
  /\ variant = "pair"
  /\ read(pair_in, FALSE).res = "data"
  /\ pair_in' = read(pair_in, FALSE).rest
  /\ UNCHANGED <<pair_out, pair_net, pair_queue, pair_recv, pair_sent, pair_got>>
  /\ UNCHANGED <<shared_vars, noise_vars, http_vars, prom_vars, fr_vars, ctor_vars,
                 pipe_vars, start_vars, fetch_vars>>
\* connection 2: one turn of the loop of _receive_from_node on a frame that
\* is complete in the inbound FIFO
pair_receive_from_node ==
  /\ variant = "pair"
  /\ read(pair_in, FALSE).res = "data"
  /\ pair_in' = read(pair_in, FALSE).rest
  /\ pair_queue' = put_nowait(pair_queue, Item(read(pair_in, FALSE).data))
  /\ UNCHANGED <<pair_out, pair_net, pair_recv, pair_sent, pair_got>>
  /\ UNCHANGED <<shared_vars, noise_vars, http_vars, prom_vars, fr_vars, ctor_vars,
                 pipe_vars, start_vars, fetch_vars>>

\* connection 2: P2PNoiseConnection.receive, or its resumption from
\* Queue.get; it returns Envelope.decode of the item it takes
pair_receive ==
  /\ variant = "pair"
  /\ IF pair_queue.items = <<>>
     THEN /\ pair_recv = "idle"
          /\ pair_recv' = "waiting"
          /\ UNCHANGED <<pair_queue, pair_got>>
     ELSE /\ pair_recv' = "idle"
          /\ pair_queue' = [pair_queue EXCEPT !.items = Tail(@)]
          /\ pair_got' = Append(pair_got, PairDecode(Head(pair_queue.items).data))
  /\ UNCHANGED <<pair_out, pair_net, pair_in, pair_sent>>
  /\ UNCHANGED <<shared_vars, noise_vars, http_vars, prom_vars, fr_vars, ctor_vars,
                 pipe_vars, start_vars, fetch_vars>>

InitPairVars ==
  /\ pair_out = <<>>
  /\ pair_net = <<>>
  /\ pair_in = <<>>
  /\ pair_queue = NewQueue
  /\ pair_recv = "idle"
  /\ pair_sent = <<>>
  /\ pair_got = <<>>

\* ------------------------------------- NoiseNode.start, step by step
\* connect() up to its first suspension, one action per step of start(): the
\* node process and the file system are seen between the steps. The position
\* is kept in connect_pc; from "sleep" and "attach" on, connect_retry,
\* connect_done and connect_cancelled above continue the call.
\* the statements of start() in program order, _connect last
StartOrder == <<"fetch", "fifos", "config", "run", "open">>
\* start() that spawns the node process before it writes the env file
next_step_run_early(pc) ==
  CASE pc = "fetch" -> "fifos" [] pc = "fifos" -> "run" [] pc = "run" -> "config"
    [] pc = "config" -> "open"
\* the statement after pc in start()
next_step(pc) == StartOrder[(CHOOSE i \in 1..Len(StartOrder) : StartOrder[i] = pc) + 1]

\* os.path.exists(path)
exists(p) == p # 0
\* start() that makes a FIFO only where nothing is
setup_fifo_keep(p, g) == IF exists(p) THEN p ELSE g
\* start(): if os.path.exists(path): os.remove(path), then os.mkfifo(path),
\* which makes the FIFO of this call where nothing is left
setup_fifo(p, g) ==
  LET removed == IF exists(p) THEN 0 ELSE p
  IN  IF removed = 0 THEN g ELSE removed

\* P2PNoiseConnection.connect, from the call to the call of node.start()
connect_begin ==
  /\ variant = "p2p_noise"
  /\ blocked = "no"
  /\ connect_pc = "idle"
  /\ IF is_connected
     THEN /\ Ret("connect", "ok")
          /\ UNCHANGED <<is_connecting, connect_pc, starts, tries, steps>>
     ELSE /\ starts < MaxStarts
          /\ is_connecting' = TRUE
          /\ starts' = starts + 1
          /\ tries' = 0
          /\ steps' = <<>>
          /\ connect_pc' = StartOrder[1]
          /\ UNCHANGED last
  /\ UNCHANGED <<variant, excluded_protocols, restricted_to_protocols, is_connected,
                 recv, old_queue, _connection_attempts, _noise_to_aea, _aea_to_noise,
                 _stream_reader, proc, procs, env_file, fifo_in, fifo_out, _in_queue,
                 _receive_from_node_task, tasks, written, delivered, open_fds, signals,
                 blocked, env, paths>>
  /\ UNCHANGED <<http_vars, prom_vars, fr_vars, ctor_vars, pipe_vars, pair_vars, fetch_vars>>

\* one statement of start() before _connect; raises: the statement raises
\* (open, Popen, os.remove, os.mkfifo), and connect() sets the status and
\* re-raises
start_step(raises) ==
  /\ variant = "p2p_noise"
  /\ connect_pc \in {"fetch", "fifos", "config", "run"}
  /\ IF raises
     THEN /\ connect_raises("OSError")
          /\ UNCHANGED <<paths, env_file, proc, procs, steps>>
     ELSE /\ connect_pc' = next_step(connect_pc)
          /\ steps' = Append(steps, connect_pc)
          /\ paths' = IF connect_pc = "fifos"
                      THEN [inbound  |-> setup_fifo(paths.inbound, starts),
                            outbound |-> setup_fifo(paths.outbound, starts)]
                      ELSE paths
          /\ env_file' = IF connect_pc = "config" THEN TRUE ELSE env_file
          /\ proc' = IF connect_pc = "run" THEN starts ELSE proc
          /\ procs' = IF connect_pc = "run" THEN [procs EXCEPT ![starts] = "running"]
                      ELSE procs
          /\ UNCHANGED <<is_connected, last>>
  /\ UNCHANGED <<variant, excluded_protocols, restricted_to_protocols, is_connecting,
                 recv, old_queue, _connection_attempts, _noise_to_aea, _aea_to_noise,
                 _stream_reader, starts, tries, fifo_in, fifo_out, _in_queue,
                 _receive_from_node_task, tasks, written, delivered, open_fds, signals,
                 blocked, env>>
  /\ UNCHANGED <<http_vars, prom_vars, fr_vars, ctor_vars, pipe_vars, pair_vars, fetch_vars>>

\* start() calls _connect: the first attempt at opening the FIFOs
start_connect ==
  /\ variant = "p2p_noise"
  /\ connect_pc = "open"
  /\ \E oserror \in BOOLEAN : _connect(starts, procs[starts] = "open", oserror)
  /\ tries' = 1
  /\ steps' = Append(steps, "open")
  /\ UNCHANGED <<variant, excluded_protocols, restricted_to_protocols, is_connecting,
                 recv, old_queue, starts, proc, procs, env_file, fifo_in, fifo_out,
                 _in_queue, _receive_from_node_task, tasks, written, delivered,
                 signals, blocked, env, paths>>
  /\ UNCHANGED <<http_vars, prom_vars, fr_vars, ctor_vars, pipe_vars, pair_vars, fetch_vars>>

InitStartVars ==
  /\ paths = [inbound |-> 0, outbound |-> 0]
  /\ steps = <<>>

\* ------------------------------------------------ the outbound pipe
\* PIPE_BUF of the host, scaled down: a write of at most PipeBuf bytes is
\* taken whole or not at all, and the 4-byte length prefix is below it
PipeBuf == 4
\* the capacity of the pipe, scaled down
PipeCapacity == 10
\* envelope.encode(): a byte string below PipeBuf and one above it
PipeData == {<<7>>, [i \in 1..(PipeBuf + 1) |-> 8]}
\* os.write(self._aea_to_noise, buf) on the descriptor _connect opened with
\* O_WRONLY | O_NONBLOCK: the possible return values for len bytes when the
\* pipe has room for `room`; -1 stands for BlockingIOError (EAGAIN). A
\* buffer the pipe has room for goes in whole. Without that room, up to
\* PipeBuf bytes are refused whole; a longer buffer goes in as far as the
\* kernel finds room for it, and the call returns that count.
os_write(room, len) ==
  IF len <= room THEN {len}
  ELSE IF len <= PipeBuf \/ room = 0 THEN {-1}
  ELSE 1..room

\* P2PNoiseConnection.send with envelope.encode() = data: NoiseNode.write has
\* no suspension point, so both os.write calls run in one step; neither
\* return value is read, and BlockingIOError leaves send() as it is raised.
\* (send(e) above is this call on a pipe with room for the whole frame.)
pipe_send(data) ==
  /\ variant = "pipe"
  /\ _aea_to_noise # -1
  /\ Len(pipe_log) < MaxWrites
  /\ \E n1 \in os_write(PipeCapacity - pipe_unread, 4) :
       IF n1 = -1
       THEN /\ Ret("send", "BlockingIOError")
            /\ pipe_log' = Append(pipe_log, [data |-> data, res |-> "BlockingIOError",
                                             at |-> Len(pipe_stream)])
            /\ UNCHANGED <<pipe_stream, pipe_unread>>
       ELSE \E n2 \in os_write(PipeCapacity - pipe_unread - n1, Len(data)) :
              LET k   == IF n2 = -1 THEN 0 ELSE n2
                  res == IF n2 = -1 THEN "BlockingIOError" ELSE "ok"
              IN  /\ pipe_stream' = pipe_stream \o SubSeq(pack(Len(data)), 1, n1)
                                                \o SubSeq(data, 1, k)
                  /\ pipe_unread' = pipe_unread + n1 + k
                  /\ pipe_log' = Append(pipe_log, [data |-> data, res |-> res,
                                                   at |-> Len(pipe_stream)])
                  /\ Ret("send", res)
  /\ UNCHANGED <<variant, excluded_protocols, restricted_to_protocols, is_connected,
                 is_connecting, connect_pc, recv, old_queue>>
  /\ UNCHANGED <<noise_vars, http_vars, prom_vars, fr_vars, ctor_vars, start_vars, pair_vars, fetch_vars>>

\* the node process reads n bytes from its end of the pipe
pipe_node_reads(n) ==
  /\ variant = "pipe"
  /\ n <= pipe_unread
  /\ pipe_unread' = pipe_unread - n
  /\ UNCHANGED <<pipe_stream, pipe_log>>
  /\ UNCHANGED <<shared_vars, noise_vars, http_vars, prom_vars, fr_vars, ctor_vars,
                 start_vars, pair_vars, fetch_vars>>

InitPipeVars ==
  /\ pipe_stream = <<>>
  /\ pipe_unread = 0
  /\ pipe_log = <<>>

InitFrVars ==
  /\ fr_in = <<>>
  /\ fr_next = 1
  /\ fr_stream = <<>>
  /\ fr_out = <<>>
  /\ fr_open = TRUE

InitConfig(cs) ==
  \E c \in cs : excluded_protocols = c[1] /\ restricted_to_protocols = c[2]

Init ==
  /\ \/ variant = "p2p_noise" /\ InitConfig(NoiseConfigs)
     \/ variant \in {"http_client", "prometheus"} /\ InitConfig(Configs)
  /\ InitShared
  /\ InitNoiseVars
  /\ InitEnv
  /\ InitHttpVars
  /\ InitPromVars
  /\ InitFetchVars
  /\ InitPairVars
  /\ InitStartVars
  /\ InitPipeVars
  /\ InitFrVars
  /\ InitBuilt

InitFraming ==
  /\ variant = "framing"
  /\ InitConfig({<<{}, {}>>})
  /\ InitShared
  /\ InitNoiseVars
  /\ InitEnv
  /\ InitHttpVars
  /\ InitPromVars
  /\ InitFetchVars
  /\ InitPairVars
  /\ InitStartVars
  /\ InitPipeVars
  /\ InitBuilt
  /\ fr_in \in SeqsUpTo(Payloads, MaxPayloads)
  /\ fr_next = 1
  /\ fr_stream = <<>>
  /\ fr_out = <<>>
  /\ fr_open = TRUE

NextNoise ==
  \/ connect
  \/ connect_retry
  \/ connect_done
  \/ connect_cancelled
  \/ disconnect
  \/ receive
  \/ receive_wake
  \/ receive_cancelled
  \/ \E e \in NoiseEnvelopes : send(e)
  \/ \E t \in Gens : _receive_from_node(t)
  \/ node_opens
  \/ \E g \in Gens : node_writes(g)
  \/ \E g \in Gens : node_exits(g)

NextHttp ==
  \/ http_connect
  \/ http_disconnect
  \/ \E e \in HttpEnvelopes : http_send(e)
  \/ http_receive
  \/ http_receive_wake
  \/ http_receive_cancelled

NextProm ==
  \/ prom_connect
  \/ prom_disconnect
  \/ \E e \in PromEnvelopes : prom_send(e)
  \/ prom_receive
  \/ prom_receive_wake
  \/ prom_receive_cancelled

NextFraming ==
  \/ fr_write
  \/ fr_read

Next == NextNoise \/ NextHttp \/ NextProm

\* one connection instance of any variant, driven by any caller
Spec == Init /\ [][Next]_vars

InitNoise ==
  /\ variant = "p2p_noise"
  /\ InitConfig(NoiseConfigs)
  /\ InitShared
  /\ InitNoiseVars
  /\ InitEnv
  /\ InitHttpVars
  /\ InitPromVars
  /\ InitFetchVars
  /\ InitPairVars
  /\ InitStartVars
  /\ InitPipeVars
  /\ InitFrVars
  /\ InitBuilt

\* the overlay connection when no node process ever opens its ends of the
\* FIFOs: every open of the outbound FIFO fails. asyncio.sleep(2) returns,
\* so a connect() suspended in it is resumed.
NextNoReader ==
  \/ connect
  \/ connect_retry
  \/ connect_cancelled
  \/ disconnect
  \/ receive
  \/ \E e \in NoiseEnvelopes : send(e)

SpecNoReader == InitNoise /\ [][NextNoReader]_vars /\ WF_vars(connect_retry)

\* one HTTPClientConnection, driven by any caller
InitHttp ==
  /\ variant = "http_client"
  /\ InitConfig(Configs)
  /\ InitShared
  /\ InitNoiseVars
  /\ InitEnv
  /\ InitHttpVars
  /\ InitPromVars
  /\ InitFetchVars
  /\ InitPairVars
  /\ InitStartVars
  /\ InitPipeVars
  /\ InitFrVars
  /\ InitBuilt

SpecHttp == InitHttp /\ [][NextHttp]_vars

\* ------------------------------------------------- aea fetch --local
Authors == {"a1", "a2"}
Names == {"n1", "n2"}
Versions == {"1.0.0", "2.0.0", "latest"}
PublicIds == [author : Authors, name : Names, version : Versions]

\* PublicId.same_prefix
same_prefix(a, b) == a.author = b.author /\ a.name = b.name
\* PackageVersion.is_latest
is_latest(version) == version = "latest"

\* _is_version_correct; config: ctx.agent_config
_is_version_correct(config, agent_public_id) ==
  /\ same_prefix(config, agent_public_id)
  /\ \/ is_latest(agent_public_id.version)
     \/ config.version = agent_public_id.version

\* fetch_agent_locally from the loading of the found package's configuration
\* on, with a registry path set and a package folder found for the
\* author and name asked for
fetch_agent_locally ==
  /\ variant = "fetch"
  /\ last.op = "init"
  /\ IF ~_is_version_correct(agent_config, public_id)
     THEN /\ Ret("fetch", "ClickException")
          /\ fetch_error' = "Wrong agent version in public ID"
          /\ UNCHANGED <<target_path, copied>>
     ELSE IF target_path
     THEN /\ Ret("fetch", "ClickException")
          /\ fetch_error' = "already exists in target folder"
          /\ UNCHANGED <<target_path, copied>>
     ELSE /\ Ret("fetch", "ok")
          /\ target_path' = TRUE
          /\ copied' = TRUE
          /\ UNCHANGED fetch_error
  /\ UNCHANGED <<variant, excluded_protocols, restricted_to_protocols, is_connected,
                 is_connecting, connect_pc, recv, old_queue, agent_config, public_id,
                 noise_vars, http_vars, prom_vars, fr_vars, ctor_vars, pipe_vars,
                 start_vars, pair_vars>>

\* a local registry that holds some agent package under the folder of the
\* author and name asked for, and a request for any PublicId
InitFetch ==
  /\ variant = "fetch"
  /\ InitConfig({<<{}, {}>>})
  /\ InitShared
  /\ InitNoiseVars
  /\ InitEnv
  /\ InitHttpVars
  /\ InitPromVars
  /\ InitPairVars
  /\ InitStartVars
  /\ InitPipeVars
  /\ InitFrVars
  /\ InitBuilt
  /\ agent_config \in PublicIds
  /\ public_id \in PublicIds
  /\ target_path \in BOOLEAN
  /\ copied = FALSE
  /\ fetch_error = ""
NextFetch == fetch_agent_locally
SpecFetch == InitFetch /\ [][NextFetch]_vars

\* one HTTPClientConnection or one PrometheusConnection, driven by any caller
InitServices == Init /\ variant \in {"http_client", "prometheus"}
NextServices == NextHttp \/ NextProm
SpecServices == InitServices /\ [][NextServices]_vars

\* the framing functions alone, on every sequence of up to MaxPayloads payloads
SpecFraming == InitFraming /\ [][NextFraming]_vars

\* the overlay connection and its node on any host: the node may open its
\* pipes at any time while the manager retries, may ignore SIGTERM, and the
\* dependency fetch may have failed
InitNode ==
  /\ variant = "p2p_noise"
  /\ InitConfig(NoiseConfigs)
  /\ InitShared
  /\ InitNoiseVars
  /\ env \in Envs
  /\ InitHttpVars
  /\ InitPromVars
  /\ InitFetchVars
  /\ InitPairVars
  /\ InitStartVars
  /\ InitPipeVars
  /\ InitFrVars
  /\ InitBuilt

NextNode ==
  \/ connect
  \/ connect_retry
  \/ connect_done
  \/ connect_cancelled
  \/ disconnect
  \/ stop_returns
  \/ receive
  \/ receive_wake
  \/ \E t \in Gens : _receive_from_node(t)
  \/ node_opens_anytime
  \/ \E g \in Gens : node_exits(g)

SpecNode == InitNode /\ [][NextNode]_vars

\* every call of the constructor, and starts of the node of the connection
\* it returns
InitConstruct ==
  /\ variant = "p2p_noise"
  /\ InitConfig(NoiseConfigs)
  /\ InitShared
  /\ InitNoiseVars
  /\ InitEnv
  /\ InitHttpVars
  /\ InitPromVars
  /\ InitFetchVars
  /\ InitPairVars
  /\ InitStartVars
  /\ InitPipeVars
  /\ InitFrVars
  /\ \E a \in CtorArgs : ctor = [state |-> "args", key |-> a.key, address |-> a.address,
                                   uri |-> a.uri, node_uri |-> "unset",
                                   entry_peers |-> a.entry_peers, go |-> a.go]
  /\ address = "unset"
  /\ pub = "unset"

NextConstruct ==
  \/ P2PNoiseConnection_init
  \/ /\ ctor.state = "constructed"
     /\ \/ connect
        \/ connect_cancelled
        \/ disconnect
        \/ node_opens

SpecConstruct == InitConstruct /\ [][NextConstruct]_vars

\* connect() and disconnect() calls on one P2PNoiseConnection, start() taken
\* step by step. NoiseNode.__init__ makes the directory of the two paths
\* with mkdtemp; anything may put a file at either path before start() runs.
InitStart ==
  /\ variant = "p2p_noise"
  /\ InitConfig(NoiseConfigs)
  /\ InitShared
  /\ InitNoiseVars
  /\ InitEnv
  /\ InitHttpVars
  /\ InitPromVars
  /\ InitFetchVars
  /\ InitPairVars
  /\ InitPipeVars
  /\ InitFrVars
  /\ InitBuilt
  /\ paths \in [inbound : {0, -1}, outbound : {0, -1}]
  /\ steps = <<>>

\* disconnect() runs only where connect() is suspended or has returned
NextStart ==
  \/ connect_begin
  \/ \E raises \in BOOLEAN : start_step(raises)
  \/ start_connect
  \/ connect_retry
  \/ connect_done
  \/ connect_cancelled
  \/ connect_pc \in {"idle", "sleep", "attach"} /\ disconnect
  \/ node_opens

SpecStart == InitStart /\ [][NextStart]_vars

\* a P2PNoiseConnection after its first connect() returned: the node process
\* opened its FIFOs during the first sleep of _connect, the second attempt
\* opened both descriptors and the pump task runs
InitConnected ==
  /\ is_connected = TRUE
  /\ is_connecting = FALSE
  /\ connect_pc = "idle"
  /\ recv = [pc |-> "idle", old |-> FALSE]
  /\ old_queue = <<>>
  /\ last = [op |-> "connect", res |-> "ok"]
  /\ _connection_attempts = ConnectionAttempts - 2
  /\ _noise_to_aea = 1
  /\ _aea_to_noise = 1
  /\ _stream_reader = 1
  /\ starts = 1
  /\ tries = 2
  /\ proc = 1
  /\ procs = [g \in Gens |-> IF g = 1 THEN "open" ELSE "none"]
  /\ env_file = TRUE
  /\ fifo_in = [g \in Gens |-> <<>>]
  /\ fifo_out = [g \in Gens |-> <<>>]
  /\ _in_queue = NewQueue
  /\ _receive_from_node_task = 1
  /\ tasks = [g \in Gens |-> IF g = 1 THEN [state |-> "running", reader |-> 1]
                                      ELSE [state |-> "none", reader |-> 0]]
  /\ written = [g \in Gens |-> <<>>]
  /\ delivered = <<>>
  /\ open_fds = [g \in Gens |-> IF g = 1 THEN [inbound |-> 2, outbound |-> 1]
                                         ELSE [inbound |-> 0, outbound |-> 0]]
  /\ signals = [g \in Gens |-> 0]
  /\ blocked = "no"

\* a connected P2PNoiseConnection whose node process writes frames and ends,
\* between two frames or inside one
InitStream ==
  /\ variant = "p2p_noise"
  /\ InitConfig(NoiseConfigs)
  /\ InitConnected
  /\ InitEnv
  /\ InitHttpVars
  /\ InitPromVars
  /\ InitFetchVars
  /\ InitPairVars
  /\ InitStartVars
  /\ InitPipeVars
  /\ InitFrVars
  /\ InitBuilt

NextStream ==
  \/ \E g \in Gens : node_writes(g)
  \/ \E g \in Gens : node_exits(g)
  \/ \E g \in Gens, k \in 1..5 : node_exits_midframe(g, k)
  \/ \E t \in Gens : _receive_from_node(t)
  \/ receive
  \/ receive_wake
  \/ receive_cancelled
  \/ disconnect

SpecStream == InitStream /\ [][NextStream]_vars

\* two connected P2PNoiseConnections: connection 2 (the one of the other
\* variables) was built with the URI of node 1 as its entry peer
InitPair ==
  /\ variant = "pair"
  /\ InitConfig(NoiseConfigs)
  /\ InitConnected
  /\ InitEnv
  /\ InitHttpVars
  /\ InitPromVars
  /\ InitFetchVars
  /\ InitPairVars
  /\ InitStartVars
  /\ InitPipeVars
  /\ InitFrVars
  /\ ctor = [Built EXCEPT !.key = "k2", !.entry_peers = [none |-> FALSE, items |-> <<"u2">>]]
  /\ pub = PubStr("k2")
  /\ address = PubStr("k2")

NextPair ==
  \/ \E e \in PairEnvelopes : pair_send(e)
  \/ node_forwards
  \/ node_delivers
  \/ pair_receive_from_node
  \/ pair_receive

\* the two node processes and the pump task run whenever they can, and the
\* agent of connection 2 keeps calling receive()
SpecPair ==
  /\ InitPair
  /\ [][NextPair]_vars
  /\ WF_vars(node_forwards)
  /\ WF_vars(node_delivers)
  /\ WF_vars(pair_receive_from_node)
  /\ WF_vars(pair_receive)

\* send() calls on a connected P2PNoiseConnection and the node process
\* reading at the other end of the outbound pipe
InitPipe ==
  /\ variant = "pipe"
  /\ InitConfig({<<{}, {}>>})
  /\ InitConnected
  /\ InitEnv
  /\ InitHttpVars
  /\ InitPromVars
  /\ InitFetchVars
  /\ InitPairVars
  /\ InitStartVars
  /\ InitFrVars
  /\ InitBuilt
  /\ InitPipeVars

NextPipe ==
  \/ \E data \in PipeData : pipe_send(data)
  \/ \E n \in 1..PipeCapacity : pipe_node_reads(n)

SpecPipe == InitPipe /\ [][NextPipe]_vars

\* the AEA_P2P_ENTRY_URIS line of the env file while the file exists: start()
\* writes it from self.entry_peers and self.uri, which nothing assigns after
\* NoiseNode.__init__
env_file_entry_uris ==
  IF env_file THEN AEA_P2P_ENTRY_URIS(ctor.entry_peers.items, ctor.node_uri) ELSE <<>>

\* ------------------------------------------------------------------ claims
\* every variable but `last`: the state of the connection and its resources
AllButLast == <<variant, excluded_protocols, restricted_to_protocols, is_connected,
                is_connecting, connect_pc, recv, old_queue, noise_vars, http_vars,
                prom_vars>>
\* what a send() can change behind the connection: the outbound pipe, the
\* HTTP requests made, the metrics registry, the inbound queues
Backend == <<fifo_out, requests, in_queue, metrics, updates, _queue>>
\* a send() step that raised and changed nothing behind the connection
Rejected == last'.res \in Errors /\ UNCHANGED Backend
IsPrefix(a, b) == Len(a) <= Len(b) /\ SubSeq(b, 1, Len(a)) = a

\* C1: in every variant a disconnect() called while the status is
\* disconnected returns without raising and changes nothing.
C1_DisconnectWhenDisconnected ==
  [][((disconnect \/ http_disconnect \/ prom_disconnect) /\ Status = "disconnected")
       => (last'.res = "ok" /\ UNCHANGED AllButLast)]_vars

\* C2: when connect() of the overlay connection raises because the node could
\* not be started or its pipes not opened, the status it leaves is
\* disconnected: neither is_connected nor is_connecting is set.
C2_FailedConnectLeavesDisconnected ==
  [][((connect \/ connect_retry) /\ connect_pc' = "idle" /\ last'.op = "connect"
        /\ last'.res \in Errors)
       => (~is_connected' /\ ~is_connecting')]_vars

\* C3: in every variant a send() called while the status is not connected
\* raises and has no effect on the backend.
C3_SendWhenNotConnected ==
  [][(((\E e \in NoiseEnvelopes : send(e)) \/ (\E e \in HttpEnvelopes : http_send(e))
        \/ (\E e \in PromEnvelopes : prom_send(e))) /\ Status # "connected")
       => Rejected]_vars

\* C4: in every variant, on a connected connection, a send() of an envelope
\* whose protocol is in excluded_protocols raises and has no effect.
C4_ExcludedProtocolRejected ==
  [][/\ \A e \in NoiseEnvelopes :
          (send(e) /\ Status = "connected" /\ e.protocol_id \in excluded_protocols)
            => Rejected
     /\ \A e \in HttpEnvelopes :
          (http_send(e) /\ Status = "connected" /\ e.protocol_id \in excluded_protocols)
            => Rejected
     /\ \A e \in PromEnvelopes :
          (prom_send(e) /\ Status = "connected" /\ e.protocol_id \in excluded_protocols)
            => Rejected]_vars

\* C5: in every variant with a non-empty restricted_to_protocols, on a
\* connected connection, a send() of an envelope whose protocol is outside
\* the set raises and has no effect, and one whose protocol is in the set
\* (and not excluded) is not refused for its protocol.
Outside(e) == restricted_to_protocols # {} /\ e.protocol_id \notin restricted_to_protocols
Inside(e) == e.protocol_id \in restricted_to_protocols \ excluded_protocols
C5_RestrictedProtocols ==
  [][/\ \A e \in NoiseEnvelopes : (send(e) /\ Status = "connected") =>
          /\ Outside(e) => Rejected
          /\ Inside(e) => last'.res # "ValueError"
     /\ \A e \in HttpEnvelopes : (http_send(e) /\ Status = "connected") =>
          /\ Outside(e) => Rejected
          /\ Inside(e) => last'.res # "ValueError"
     /\ \A e \in PromEnvelopes : (prom_send(e) /\ Status = "connected") =>
          /\ Outside(e) => Rejected
          /\ Inside(e) => last'.res # "ValueError"]_vars

\* C6: when the pump of a connected overlay connection finds the inbound pipe
\* at end-of-stream, it stops and puts the None sentinel on the inbound queue
\* (so that receive() returns None and the status becomes disconnected).
AtEndOfStream(t) ==
  /\ read(fifo_in[tasks[t].reader], TRUE).res = "none"
  /\ read(fifo_in[tasks[t].reader], FALSE).res = "wait"
C6_EndOfStreamPutsSentinel ==
  [][\A t \in Gens :
       (_receive_from_node(t) /\ is_connected /\ _receive_from_node_task = t
          /\ AtEndOfStream(t))
         => (/\ tasks'[t].state = "finished"
             /\ _in_queue'.items = Append(_in_queue.items, NoneItem))]_vars

\* C7: in every variant, when disconnect() completes while a receive() is
\* suspended, the queue that receive() waits on holds an item, so that the
\* receive() is resumed and returns instead of staying blocked.
CurrentQueue ==
  IF variant = "p2p_noise" THEN _in_queue
  ELSE IF variant = "http_client" THEN in_queue ELSE _queue
RecvQueue == IF recv.old THEN old_queue ELSE CurrentQueue.items
C7_DisconnectWakesReceive ==
  [][((disconnect \/ http_disconnect \/ prom_disconnect) /\ recv.pc = "waiting"
        /\ last'.res = "ok")
       => RecvQueue' # <<>>]_vars

\* C8: for every finite sequence of payloads, writing each with
\* NoiseNode.write and reading the stream back with NoiseNode.read until it
\* returns None yields the same payloads, in the same number and order.
C8_FramingRoundTrip ==
  (variant = "framing" /\ fr_next > Len(fr_in) /\ ~fr_open) => fr_out = fr_in

\* C9: the envelopes returned by successive receive() calls of the overlay
\* connection are, for each node process, a prefix of the frames that process
\* wrote: none reordered, duplicated, merged, skipped or invented.
DeliveredFrom(g) ==
  LET WrittenBy(e) == \E i \in 1..Len(written[g]) : written[g][i] = EnvelopeEncode(e)
  IN SelectSeq(delivered, WrittenBy)
RECURSIVE DeliveredCount(_)
DeliveredCount(g) == IF g = 0 THEN 0 ELSE Len(DeliveredFrom(g)) + DeliveredCount(g - 1)
EncodeAll(es) == [i \in 1..Len(es) |-> EnvelopeEncode(es[i])]
C9_ReceivedIsPrefixOfWritten ==
  variant = "p2p_noise" =>
    /\ \A g \in Gens : IsPrefix(EncodeAll(DeliveredFrom(g)), written[g])
    /\ Len(delivered) = DeliveredCount(MaxStarts)
\* two frames written by one process have been received, the connection
\* still connected
C9_Witness ==
  /\ variant = "p2p_noise"
  /\ is_connected
  /\ Len(delivered) = 2
  /\ \E g \in Gens : Len(written[g]) = 2

\* C10: when every open of the outbound FIFO fails with ENXIO, _connect makes
\* at most ConnectionAttempts - 1 attempts in total; a suspended connect()
\* always ends, and connect() only ever ends by raising: the connection is
\* never connected.
C10_RetryIsBounded ==
  /\ [](tries <= ConnectionAttempts /\ _connection_attempts >= 1 /\ ~is_connected)
  /\ [][(connect_pc # "idle" /\ connect_pc' = "idle")
         => (last'.op = "connect" /\ last'.res \in Errors)]_vars
  /\ [](last.op = "connect" => last.res \in Errors)
  /\ (connect_pc = "sleep" ~> connect_pc = "idle")
\* one start() used the whole budget: 29 opens failed with ENXIO and the
\* 30th entry of _connect raised
C10_Witness ==
  /\ last = [op |-> "connect", res |-> "Exception"]
  /\ tries = ConnectionAttempts
  /\ _connection_attempts = 1
  /\ ~is_connected

\* seconds since start() called _connect, when connect() wakes from its
\* sleep: one Backoff after each entry of _connect so far
Elapsed == tries * Backoff
\* ends_fatally: this step ends connect() with the error of the used-up budget
EndsFatally == connect_pc' = "idle" /\ last' = [op |-> "connect", res |-> "Exception"]

\* C11: in the first connect() of a connection, with the budget of
\* ConnectionAttempts attempts and Backoff seconds between them, a retry made
\* when the node has opened its end of the outbound pipe less than
\* ConnectionAttempts * Backoff seconds after the start does not end with the
\* fatal error, and the fatal error comes only once that time has passed.
C11_RetrySucceedsWithinBudget ==
  [][(connect_retry /\ starts = 1)
       => /\ (procs[starts] = "open" /\ Elapsed < ConnectionAttempts * Backoff)
               => ~EndsFatally
          /\ EndsFatally => Elapsed >= ConnectionAttempts * Backoff]_vars

\* C12: cancelling a receive() that waits on the overlay connection takes
\* nothing: the step leaves the inbound queue, the unread bytes of the pipes
\* and the envelopes returned so far as they were; and when the call after
\* the cancellation finds the one envelope that arrived since, it returns
\* that envelope.
C12_CancelledReceiveConsumesNothing ==
  [][/\ receive_cancelled => UNCHANGED <<_in_queue, fifo_in, delivered>>
     /\ (/\ receive
         /\ last = [op |-> "receive", res |-> "cancelled"]
         /\ Len(_in_queue.items) = 1
         /\ ~Head(_in_queue.items).none
         /\ EnvelopeWellFormed(Head(_in_queue.items).data))
          => /\ last' = [op |-> "receive", res |-> "envelope"]
             /\ delivered' = Append(delivered, EnvelopeDecode(Head(_in_queue.items).data))
             /\ _in_queue'.items = <<>>]_vars
\* receive() was cancelled with nothing received yet; since then the node
\* wrote one envelope, which the pump task put on the queue
C12_Witness ==
  /\ variant = "p2p_noise"
  /\ is_connected
  /\ last = [op |-> "receive", res |-> "cancelled"]
  /\ recv.pc = "idle"
  /\ delivered = <<>>
  /\ Len(_in_queue.items) = 1
  /\ ~Head(_in_queue.items).none
  /\ \E g \in Gens : written[g] = <<Head(_in_queue.items).data>>

\* C13: in every variant, cancelling a receive() that is suspended leaves
\* the status of the connection, its inbound queue, the node processes and
\* the pump tasks as they were.
C13_CancelledReceiveChangesNothing ==
  [][(receive_cancelled \/ http_receive_cancelled \/ prom_receive_cancelled)
       => /\ Status' = Status
          /\ UNCHANGED <<is_connected, is_connecting, _state>>
          /\ UNCHANGED <<_in_queue, in_queue, _queue>>
          /\ UNCHANGED <<proc, procs, signals>>
          /\ UNCHANGED <<_receive_from_node_task, tasks>>]_vars
\* a receive() of a connected connection has just been cancelled
C13_Witness ==
  /\ Status = "connected"
  /\ last = [op |-> "receive", res |-> "cancelled"]
  /\ recv.pc = "idle"
  /\ variant = "p2p_noise" => tasks[_receive_from_node_task].state = "running"

\* C14: in every variant a connect() called while the status is connected
\* returns without raising and changes nothing: the status, the node
\* processes, the pipes and their descriptors, the HTTP server and the inbound
\* queue with what it holds all stay as they were.
C14_ConnectWhenConnected ==
  [][((connect \/ http_connect \/ prom_connect) /\ Status = "connected")
       => (last' = [op |-> "connect", res |-> "ok"] /\ UNCHANGED AllButLast)]_vars
\* connect() has returned on an overlay connection that was connected: the
\* first node process still runs, one envelope had been received before the
\* call and another is still in the queue
C14_Witness ==
  /\ variant = "p2p_noise"
  /\ is_connected
  /\ starts = 1
  /\ last = [op |-> "connect", res |-> "ok"]
  /\ Len(delivered) = 1
  /\ Len(_in_queue.items) = 1

\* C15: when disconnect() returns on an overlay connection that was
\* connected, the status is disconnected, the node process has ended, the
\* startup configuration file is gone, and no descriptor of the inbound or of
\* the outbound pipe of that node is left open.
C15_DisconnectReleasesEverything ==
  [][(disconnect /\ is_connected /\ last' = [op |-> "disconnect", res |-> "ok"])
       => /\ Status' = "disconnected"
          /\ Ended(proc)'
          /\ ~env_file'
          /\ open_fds'[proc].inbound = 0
          /\ open_fds'[proc].outbound = 0]_vars

\* C16: whatever disconnect() and receive() calls are made on an overlay
\* connection, on any host, each node process spawned is sent the terminate
\* signal at most once, and never after a stop() has waited for it.
C16_TerminatedAtMostOnce ==
  /\ [](\A g \in Gens : signals[g] <= 1)
  /\ [][\A g \in Gens : procs[g] = "waited" => signals'[g] = signals[g]]_vars
\* stop() ran twice on the same node process: disconnect() stopped it, and a
\* receive() then took the None that disconnect() had put on the queue
C16_Witness ==
  /\ proc # 0
  /\ procs[proc] = "waited"
  /\ signals[proc] = 1
  /\ starts = proc
  /\ ~is_connected
  /\ _in_queue.set /\ _in_queue.items = <<>>
  /\ last = [op |-> "receive", res |-> "none"]

\* C17: NoiseNode.stop never hangs on a node process that does not end: in
\* every state in which disconnect() or receive() is inside the wait of
\* stop(), the wait can end and the call go on.
C17_StopAlwaysReturns == blocked # "no" => ENABLED stop_returns

\* the constructor was called with no bind URI and with no entry peer
GenesisArgs ==
  ctor.uri = "none" /\ (ctor.entry_peers.none \/ ctor.entry_peers.items = <<>>)
\* no node process was spawned, no FIFO made or opened, no env file written
NothingStarted ==
  /\ proc = 0
  /\ starts = 0
  /\ ~env_file
  /\ \A g \in Gens : procs[g] = "none" /\ open_fds[g] = [inbound |-> 0, outbound |-> 0]

\* C18: on a host where the go runtime is found, constructing a
\* P2PNoiseConnection with no bind URI and with an empty or absent list of
\* entry peers ends with ValueError; where go is not found it ends with
\* SystemExit before the arguments are looked at; either way no process has
\* been spawned and no named pipe made.
C18_GenesisWithoutUriRejected ==
  (ctor.state # "args" /\ GenesisArgs)
    => /\ ctor.state = (IF ctor.go THEN "ValueError" ELSE "SystemExit")
       /\ NothingStarted
\* a constructor called with entry_peers = [] and no URI raised ValueError
C18_Witness ==
  /\ ctor.state = "ValueError"
  /\ ctor.uri = "none"
  /\ ~ctor.entry_peers.none
  /\ ctor.entry_peers.items = <<>>
  /\ NothingStarted
\* C18 as stated: whatever the host, such a construction ends with the
\* validation error, and nothing has been spawned or made.
C18_AlwaysValidationError ==
  (ctor.state # "args" /\ GenesisArgs) => (ctor.state = "ValueError" /\ NothingStarted)

\* C20: once a P2PNoiseConnection has been built, its address is the string
\* encoding of the public key of its node, whatever address the caller passed,
\* and stays so over the life of the connection.
C20_AddressIsPublicKey ==
  ctor.state \in {"constructed", "ValueError"}
    => (address = pub /\ pub = PubStr(ctor.key))
\* a connection built with an address that is not its key's, whose node has
\* been started
C20_Witness ==
  /\ ctor.state = "constructed"
  /\ ctor.address = "agent"
  /\ address = "pub2"
  /\ starts = 1
  /\ procs[1] = "open"

\* C19: on a host where the dependency fetch of start() exits with a
\* non-zero status, a connect() that calls start() ends at once by raising,
\* and it has spawned no node process, opened no pipe and written no env
\* file.
C19_FetchFailureAbortsStart ==
  [][(connect /\ ~is_connected /\ env.deps_rc # 0)
       => /\ connect_pc' = "idle"
          /\ last'.op = "connect"
          /\ last'.res \in Errors
          /\ UNCHANGED <<proc, procs, open_fds, env_file>>]_vars

\* C25: in _connect, while the budget lasts, an open of the outbound FIFO
\* that fails with an errno other than ENXIO ends connect() at once with that
\* OSError, with no sleep and no further attempt; and connect() goes to the
\* backoff sleep only after an open that failed with ENXIO, that is when no
\* process held the read end.
C25_OnlyEnxioRetries ==
  [][/\ (connect_retry /\ _connection_attempts > 1
           /\ _connect(starts, procs[starts] = "open", TRUE))
          => (connect_pc' = "idle" /\ last' = [op |-> "connect", res |-> "OSError"])
     /\ (connect /\ ~is_connected /\ _connection_attempts > 1
           /\ _connect(starts + 1, FALSE, TRUE))
          => (connect_pc' = "idle" /\ last' = [op |-> "connect", res |-> "OSError"])
     /\ (connect_pc # "sleep" /\ connect_pc' = "sleep")
          => (procs'[starts'] # "open" /\ _connect(starts', FALSE, FALSE))
     /\ (connect_retry /\ connect_pc' = "sleep")
          => (procs[starts] # "open" /\ _connect(starts, FALSE, FALSE))
     /\ (connect_pc = "idle" /\ last.op = "connect" /\ last.res = "OSError")
          => ~ENABLED connect_retry]_vars
\* a retry of _connect, after one ENXIO failure, failed with another errno:
\* connect() has ended with OSError after two attempts
C25_Witness ==
  /\ last = [op |-> "connect", res |-> "OSError"]
  /\ connect_pc = "idle"
  /\ tries = 2
  /\ _connection_attempts = ConnectionAttempts - 2
  /\ starts = 1

\* the connection has been connected at some time: a pump task exists
EverConnected == \E g \in Gens : tasks[g].state # "none"

\* C29: once an overlay connection has been connected and is disconnected
\* again, a connect() on it spawns no node process, and its status never
\* comes back to connected.
C29_StoppedIsTerminal ==
  /\ [][(connect /\ Status = "disconnected" /\ EverConnected)
          => UNCHANGED <<starts, proc, procs>>]_vars
  /\ [][(~is_connected /\ EverConnected) => ~is_connected']_vars

RECURSIVE Without(_, _)
Without(l, x) ==
  IF l = <<>> THEN <<>>
  ELSE IF Head(l) = x THEN Without(Tail(l), x)
  ELSE <<Head(l)>> \o Without(Tail(l), x)

\* C26: the bootstrap-peer list in the startup config is the configured
\* entry-peer list in its order, without the entries whose string form is the
\* node's own bind URI: nothing else is removed, nothing is added
C26_BootstrapPeersExcludeSelf ==
  env_file =>
    LET peers == [i \in 1..Len(ctor.entry_peers.items) |-> Uri_str(ctor.entry_peers.items[i])]
        kept  == Without(peers, Uri_str(ctor.node_uri))
        line  == env_file_entry_uris
    IN  /\ Len(line) = (IF kept = <<>> THEN 0 ELSE 2 * Len(kept) - 1)
        /\ \A i \in 1..Len(kept) : line[2 * i - 1] = kept[i]
        /\ \A i \in 1..(Len(kept) - 1) : line[2 * i] = ","
\* the config was written for a node whose entry peers hold its own bind URI
\* (under the name of another Uri object) before another peer
C26_Witness ==
  /\ env_file
  /\ ctor.node_uri = "u1"
  /\ ctor.entry_peers.items = <<"u3", "u2">>
  /\ env_file_entry_uris = <<"127.0.0.1:9001">>
\* the i-th send() call left its whole frame in the stream where it started
FrameAt(i) ==
  /\ pipe_log[i].at + Len(write(pipe_log[i].data)) <= Len(pipe_stream)
  /\ SubSeq(pipe_stream, pipe_log[i].at + 1,
            pipe_log[i].at + Len(write(pipe_log[i].data))) = write(pipe_log[i].data)

\* C23: whenever send() returns without raising, the whole frame (length
\* prefix and payload) is in the outbound pipe
C23_ReturnMeansWholeFrame ==
  \A i \in 1..Len(pipe_log) : pipe_log[i].res = "ok" => FrameAt(i)

\* C22: of two send() calls made one after the other, the complete frame of
\* the first is in the outbound pipe before the complete frame of the
\* second, with no byte of the one inside the other
C22_FramesInCallOrder ==
  \A i \in 1..(Len(pipe_log) - 1) :
    (pipe_log[i].res = "ok" /\ pipe_log[i + 1].res = "ok")
      => /\ FrameAt(i)
         /\ FrameAt(i + 1)
         /\ pipe_log[i + 1].at = pipe_log[i].at + Len(write(pipe_log[i].data))
\* C27: after the pipe-creation step of start(), the FIFOs of this start()
\* are at the two paths, whatever was there before (nothing, a file, the
\* FIFOs of the start() before)
C27_FifosMadeAnew ==
  [][(connect_pc = "fifos" /\ connect_pc' # "idle")
       => (paths'.inbound = starts /\ paths'.outbound = starts)]_vars
\* the second start() has replaced the FIFOs of the first
C27_Witness ==
  /\ starts = 2
  /\ paths = [inbound |-> 2, outbound |-> 2]
  /\ steps = <<"fetch", "fifos">>

\* C28: the steps of a start happen only in the order fetch, pipe creation,
\* config written, process spawned, pipes opened, reader attached: the node
\* process is never spawned before the FIFOs exist and the config is
\* written, no pipe is opened before the process is spawned, and the status
\* is connected only after the reader is attached
C28_StartupOrder ==
  /\ [](\A i \in 1..Len(steps) : i <= Len(StartOrder) => steps[i] = StartOrder[i])
  /\ [][paths' # paths => steps = <<"fetch">>]_vars
  /\ [][\A g \in Gens : (procs[g] = "none" /\ procs'[g] # "none")
          => /\ steps = <<"fetch", "fifos", "config">>
             /\ paths.inbound = g /\ paths.outbound = g
             /\ env_file]_vars
  /\ [][open_fds' # open_fds
          => (procs[starts] # "none" /\ SubSeq(steps, 1, 4) = <<"fetch", "fifos", "config", "run">>)]_vars
  /\ [][_stream_reader' # _stream_reader
          => (open_fds'[starts].inbound > 0 /\ open_fds'[starts].outbound > 0)]_vars
  /\ [][(~is_connected /\ is_connected')
          => (connect_pc = "attach" /\ _stream_reader = starts)]_vars
\* a second start() has gone through every step and connect() has returned
C28_Witness ==
  /\ is_connected
  /\ starts = 2
  /\ Len(steps) >= 5
  /\ _stream_reader = 2
  /\ procs[2] = "open"
\* the stream of pump t has ended inside a frame: fewer than 4 bytes of a
\* length prefix, or a prefix and fewer payload bytes than it declares
MidFrame(t) ==
  /\ fifo_in[tasks[t].reader] # <<>>
  /\ Ended(tasks[t].reader)
  /\ read(fifo_in[tasks[t].reader], FALSE).res = "wait"

\* C30: when the inbound stream of a connected overlay connection ends in
\* the middle of a frame, the connection is forced to disconnected (at the
\* pump's step, or through the None sentinel it leaves for receive()): it
\* does not stay connected with a stopped pump
C30_MidFrameEndDisconnects ==
  [][\A t \in Gens :
       (_receive_from_node(t) /\ is_connected /\ _receive_from_node_task = t
          /\ MidFrame(t))
         => \/ ~is_connected'
            \/ _in_queue'.items = Append(_in_queue.items, NoneItem)]_vars
C38_OneInboundDescriptor ==
  \A g \in Gens : open_fds[g].inbound <= 1

\* C37: every process the node has spawned and not stopped is the one its
\* process handle refers to
C37_OneLiveChild ==
  \A g \in Gens : procs[g] \in {"running", "open"} => proc = g

\* C36: status connected implies that the node process was spawned and the
\* manager has not terminated it, and that the pump task exists
C36_ConnectedHasLiveNode ==
  (variant = "p2p_noise" /\ is_connected)
    => /\ proc # 0
       /\ procs[proc] # "none"
       /\ signals[proc] = 0
       /\ _receive_from_node_task # 0
C31_NoPartialFrame ==
  [][\A t \in Gens :
       _receive_from_node(t) =>
         LET stream == fifo_in[tasks[t].reader]
         IN  /\ _in_queue'.items # _in_queue.items
                  => /\ Len(stream) >= 4
                     /\ Len(stream) >= 4 + unpack(SubSeq(stream, 1, 4))
                     /\ _in_queue'.items = Append(_in_queue.items,
                           Item(SubSeq(stream, 5, 4 + unpack(SubSeq(stream, 1, 4)))))
             /\ MidFrame(t)
                  => /\ tasks'[t].state = "finished"
                     /\ UNCHANGED <<_in_queue, last, is_connected>>]_vars
\* the pump has queued one whole frame, and the stream has then ended inside
\* the next one, with the payload begun
C31_Witness ==
  /\ MidFrame(1)
  /\ Len(fifo_in[1]) > 4
  /\ tasks[1].state = "running"
  /\ Len(_in_queue.items) = 1
  /\ ~_in_queue.items[1].none
  /\ _in_queue.items[1].data = written[1][1]
\* C39: the pump stops only when the inbound stream is at its end: a
\* well-formed frame, also one of declared length 0, never stops it
C39_PumpStopsOnlyAtEnd ==
  [][\A t \in Gens :
       (_receive_from_node(t) /\ tasks'[t].state = "finished")
         => /\ Ended(tasks[t].reader)
            /\ read(fifo_in[tasks[t].reader], FALSE).res = "wait"]_vars
\* a send() step refused for the envelope's protocol
FilterViolation ==
  \/ \E e \in HttpEnvelopes :
       http_send(e) /\ is_connected /\ e.protocol_id \in excluded_protocols
  \/ \E e \in PromEnvelopes :
       prom_send(e) /\ prom_is_connected /\ e.protocol_id # "prometheus"
\* a send() step of an envelope the connection accepts, that returns normally
\* with its effect: a request made and its response queued, a metric added
\* and the answer queued
AllowedSendSucceeds ==
  \/ \E e \in HttpEnvelopes :
       /\ http_send(e)
       /\ e.protocol_id \notin excluded_protocols
       /\ last' = [op |-> "send", res |-> "ok"]
       /\ requests' = requests + 1
       /\ Len(in_queue'.items) = Len(in_queue.items) + 1
  \/ \E e \in PromEnvelopes :
       /\ prom_send(e)
       /\ e.protocol_id = "prometheus"
       /\ last' = [op |-> "send", res |-> "ok"]
       /\ Len(_queue'.items) = Len(_queue.items) + 1

\* C32: a send() refused for a protocol-filter violation raises and leaves
\* the connection as it was (status, queue, backend), and a following send()
\* of an allowed envelope succeeds (HTTP client and metrics connections)
C32_RejectedSendKeepsConnection ==
  /\ [][FilterViolation
          => (last' = [op |-> "send", res |-> "ValueError"] /\ UNCHANGED AllButLast)]_vars
  /\ []((/\ last = [op |-> "send", res |-> "ValueError"]
          /\ Status = "connected"
          /\ requests < MaxSends
          /\ Len(_queue.items) < MaxSends)
            => ENABLED AllowedSendSucceeds)
\* a connected metrics connection has just refused an envelope, with an
\* answer of an earlier send() in its queue
C32_Witness ==
  /\ variant = "prometheus"
  /\ prom_is_connected
  /\ last = [op |-> "send", res |-> "ValueError"]
  /\ metrics["t"] # ""
  /\ _queue.set
\* C33: on a connected HTTP client or metrics connection, send() of an
\* envelope whose message has a performative the service does not handle
\* (not REQUEST; neither ADD_METRIC nor UPDATE_METRIC) is dropped: no error
\* is raised, nothing is queued and no backend effect occurs
C33_UnsupportedPerformativeDropped ==
  [][/\ \A e \in HttpEnvelopes :
         (/\ http_send(e)
          /\ is_connected
          /\ e.protocol_id \notin excluded_protocols
          /\ e.type = "HttpMessage"
          /\ e.performative # "REQUEST")
           => (last' = [op |-> "send", res |-> "ok"] /\ UNCHANGED AllButLast)
     /\ \A e \in PromEnvelopes :
         (/\ prom_send(e)
          /\ prom_is_connected
          /\ e.protocol_id = "prometheus"
          /\ e.type = "PrometheusMessage"
          /\ e.performative \notin {"ADD_METRIC", "UPDATE_METRIC"})
           => (last' = [op |-> "send", res |-> "ok"] /\ UNCHANGED AllButLast)]_vars
\* the answer with response code c
Response(c) == Item(<<c>>)
\* the step handles envelope e (a PrometheusMessage the dialogues accept, on
\* a connected metrics connection) and queues exactly the answer with code c
Answers(e, c) ==
  /\ _queue'.items = Append(_queue.items, Response(c))
  /\ last' = [op |-> "send", res |-> "ok"]

VersionCompatible(a, b) ==
  is_latest(a.version) \/ is_latest(b.version) \/ a.version = b.version
\* the outcome of a finished fetch: accepted when the version check let it
\* through, refused with the wrong-version error and nothing copied otherwise
Accepted == fetch_error # "Wrong agent version in public ID"
Refused == fetch_error = "Wrong agent version in public ID" /\ ~copied

\* C35: the local fetch accepts the agent package found for a requested
\* PublicId exactly when author and name match and the two versions are
\* compatible (one of them is the latest sentinel, or both are equal);
\* otherwise it fails with the wrong-version error and copies nothing
C35_VersionCheck ==
  (variant = "fetch" /\ last.op = "fetch")
    => IF same_prefix(agent_config, public_id) /\ VersionCompatible(agent_config, public_id)
       THEN Accepted
       ELSE Refused
====
